---- MODULE Spec2Model ----
(***************************************************************************)
(* MMessenger: a browser-resident chat client.  All state lives in         *)
(* localStorage (one JSON record per user key, one "current user" pointer) *)
(* and in the in-memory working set of each open tab (ChatManager fields   *)
(* and MMessengerApp fields).  The model follows src/unnamed/part_000 (the *)
(* variant with friend requests); src/app.js is the older variant of the   *)
(* same classes.                                                           *)
(*                                                                         *)
(* Conventions.                                                            *)
(*  - A JavaScript string is a sequence of one-character strings, so that  *)
(*    trim() is computed.  '' is <<>>.                                     *)
(*  - A user key is a number 1..MaxUsers; '' (no key) is NoKey.            *)
(*  - A JavaScript object is a record whose DOMAIN is the set of its       *)
(*    properties; a property that is absent reads as undefined.            *)
(*  - A reference to a chat object is `live` (the object is element idx of *)
(*    chatManager.chats of the tab) or `stale` (the object was dropped     *)
(*    from chatManager.chats when the array was replaced; the reference    *)
(*    keeps the object alive).                                             *)
(***************************************************************************)
EXTENDS Integers, Sequences, FiniteSets, TLC

VARIABLES
    store,      \* localStorage: user key -> raw item under USER_KEY_PREFIX + key
    pointer,    \* localStorage item CURRENT_USER_KEY (NoKey when removed)
    tab,        \* per browser tab: the MMessengerApp / ChatManager / UIManager fields
    now,        \* the last value Date.now() returned
    limits,     \* what the environment does at most in one behaviour (fixed by Init):
                \* tabs it opens, handler runs that add data or are refused, writes
                \* to localStorage that fail
    written,    \* history: how many handler runs have added data (a profile, a chat,
                \* a message, a friend, a request) or have been refused
    failures,   \* history: how many times localStorage.setItem has thrown
    last        \* history: the handler (or method) that ran last: the tab, the key and
                \* the name it was given, and its outcome

vars == <<store, pointer, tab, now, limits, written, failures, last>>

-----------------------------------------------------------------------------
(* Bounds of the model *)

MaxUsers == 2       \* user keys that can be generated
MaxTabs == 2        \* browser tabs that can be open
MaxTime == 2        \* last clock value
MaxWritten == 2     \* handler runs that add data or are refused, over one behaviour
MaxFailures == 1    \* writes to localStorage that can fail
MaxSends == 1003    \* addMessage calls on one chat, in SpecMsg
MaxStored == 2      \* chats of a stored record, in SpecCM
MaxTermLen == 2     \* characters of a search term, in SpecSearch
MaxKeystrokes == 3  \* input events in the message input, in SpecTyping

(* Program constants *)

MESSAGE_CAP == 1000     \* chat.messages.slice(-1000)
FAVORITES_ID == 1       \* initializeChats: id: 1

Keys == 1..MaxUsers
NoKey == 0
Tabs == 1..MaxTabs
FirstTime == 2          \* Date.now() is never the Favorites id 1
Times == FirstTime..MaxTime

-----------------------------------------------------------------------------
(* Strings *)

Space == " "
Null == <<"null">>      \* JavaScript null where a string may stand

Favorites == <<"F">>    \* the name of the Favorites chat
sA == <<"a">>
sB == <<"B">>
sHi == <<"h", "i">>

RECURSIVE TrimStart(_)
TrimStart(s) ==
    IF s # <<>> /\ Head(s) = Space THEN TrimStart(Tail(s)) ELSE s

RECURSIVE TrimEnd(_)
TrimEnd(s) ==
    IF s # <<>> /\ s[Len(s)] = Space THEN TrimEnd(SubSeq(s, 1, Len(s) - 1)) ELSE s

\* String.prototype.trim
Trim(s) == TrimEnd(TrimStart(s))

\* String.prototype.toLowerCase, on the letters the model types
LowerChar(c) == IF c = "A" THEN "a" ELSE IF c = "B" THEN "b" ELSE c

ToLowerCase(s) == [i \in 1..Len(s) |-> LowerChar(s[i])]

\* String.prototype.includes
Includes(s, sub) ==
    \E i \in 0..Len(s) : i + Len(sub) <= Len(s) /\ SubSeq(s, i + 1, i + Len(sub)) = sub

\* what the user can type into the nickname input
NameInputs == { <<>>, <<Space>>, sA, <<Space, "B", Space>> }
\* what the user can type into the chat-name input
ChatNameInputs == { <<>>, <<Space>>, <<Space, "T", Space>> }
\* what the user can type into the friend-name input
FriendNameInputs == { <<>>, <<Space, "B">> }
\* what the user can type into the description input
DescInputs == { <<"d", Space>> }

\* new Date().toISOString() and the HH:MM rendering of a Date: strings that are
\* stored and shown but never read back by the program; their value is not tracked
Stamp == "date"
\* what the user can type into the message input
TextInputs == { <<>>, <<Space>>, <<Space, "h", "i">> }

-----------------------------------------------------------------------------
(* Sequences *)

RECURSIVE SelectSeqBy(_, _)
\* Array.prototype.filter with the predicate given as the set of kept elements
SelectSeqBy(s, keep) ==
    IF s = <<>> THEN <<>>
    ELSE IF Head(s) \in keep THEN <<Head(s)>> \o SelectSeqBy(Tail(s), keep)
    ELSE SelectSeqBy(Tail(s), keep)

Range(s) == { s[i] : i \in 1..Len(s) }

\* Array.prototype.slice(-n)
SliceLast(s, n) == IF Len(s) <= n THEN s ELSE SubSeq(s, Len(s) - n + 1, Len(s))

\* Array.prototype.some(x => x.key === k)
SomeKey(s, k) == \E i \in 1..Len(s) : s[i].key = k

\* Array.prototype.filter(x => x.key !== k)
WithoutKey(s, k) == SelectSeqBy(s, { x \in Range(s) : x.key # k })

-----------------------------------------------------------------------------
(* Objects *)

NullObj == [isNull |-> TRUE]    \* JavaScript null where an object may stand

Has(obj, f) == f \in DOMAIN obj

\* obj.f || dflt, for a property whose value, when present, is an array (truthy)
Or(obj, f, dflt) == IF Has(obj, f) THEN obj[f] ELSE dflt

\* chat && chat.id && chat.name: an absent property, the number 0 and '' are falsy
ChatValid(c) ==
    /\ Has(c, "id") /\ c.id # 0
    /\ Has(c, "name") /\ c.name # <<>>

\* chat.type === 'private' && chat.participants && chat.participants.includes(k)
IsPrivateWith(c, k) ==
    /\ Has(c, "type") /\ c.type = "private"
    /\ Has(c, "participants")
    /\ k \in Range(c.participants)

-----------------------------------------------------------------------------
(* CloudStorageManager / StorageManager *)

AbsentItem == [kind |-> "absent"]       \* getItem returns null
CorruptItem == [kind |-> "corrupt"]     \* an item JSON.parse throws on

\* JSON.stringify of a record: the item is kept as the value JSON.parse gives back.
\* Every value the program puts in a record is a string, a number, null, an array
\* or a plain object, and these parse back to an equal value; an item that does
\* not parse is CorruptItem.
Stringify(data) == [kind |-> "json", data |-> data]

\* data ? JSON.parse(data) : null, inside try/catch returning null
loadUserData(st, userKey) ==
    IF userKey \in DOMAIN st /\ st[userKey].kind = "json"
    THEN st[userKey].data
    ELSE NullObj

\* localStorage.setItem(prefix + userKey, JSON.stringify(userData)); `ok` is
\* whether setItem succeeds (it throws when the quota is exceeded), and then
\* saveUserData throws 'Failed to save user data'
saveUserData(st, userKey, userData, ok) ==
    IF ok THEN [st EXCEPT ![userKey] = Stringify(userData)] ELSE st

\* localStorage.clear() in the place of the removal of the pointer
ClearEverything(st, ptr) == [store |-> [k \in DOMAIN st |-> AbsentItem], pointer |-> NoKey]

\* clearCurrentUser: localStorage.removeItem(CURRENT_USER_KEY)
clearCurrentUser(st, ptr) == [store |-> st, pointer |-> NoKey]

\* generateUniqueKey draws 16 random characters; the keys in use are opaque
\* tokens, and the draw is taken to miss the keys already stored
FreshKeys(st) == { k \in Keys : st[k].kind = "absent" }
generateUniqueKey(st) == CHOOSE k \in FreshKeys(st) : \A j \in FreshKeys(st) : k <= j

\* getAllUsersFromLocalStorage: the stored records that parse and have a username
getAllUsers(st) ==
    { [username |-> st[k].data.username, key |-> k] :
        k \in { j \in Keys : /\ loadUserData(st, j) # NullObj
                             /\ Has(st[j].data, "username")
                             /\ st[j].data.username # <<>> } }

-----------------------------------------------------------------------------
(* References to chat objects *)

NoRef == [kind |-> "none"]
LiveRef(i) == [kind |-> "live", idx |-> i]
StaleRef(c) == [kind |-> "stale", chat |-> c]

\* the chat object a reference points to
Deref(a, ref) == IF ref.kind = "live" THEN a.chats[ref.idx] ELSE ref.chat

\* the reference after chatManager.chats is replaced by a new array of new objects
Stale(a, ref) == IF ref.kind = "live" THEN StaleRef(a.chats[ref.idx]) ELSE ref

\* every reference held outside chatManager.chats (currentChat, the click
\* closures of the rendered chat list) keeps its object when the array is replaced
Detach(a) ==
    [a EXCEPT !.currentChat = Stale(a, @),
              !.chatList = [i \in DOMAIN @ |-> Stale(a, @[i])]]

-----------------------------------------------------------------------------
(* ChatManager *)

initializeChats ==
    << [id |-> FAVORITES_ID, name |-> Favorites, type |-> "favorites", messages |-> <<>>] >>

\* loadChats without the re-seeding of an emptied list
LoadedChatsNoReseed(userData) ==
    SelectSeqBy(Or(userData, "chats", initializeChats),
                { c \in Range(Or(userData, "chats", initializeChats)) : ChatValid(c) })

\* the array loadChats keeps: userData.chats || initializeChats(), filtered, and
\* initializeChats() again when nothing is left
LoadedChats(userData) ==
    LET all == Or(userData, "chats", initializeChats)
        kept == SelectSeqBy(all, { c \in Range(all) : ChatValid(c) })
    IN IF Len(kept) = 0 THEN initializeChats ELSE kept

\* loadChats reading the chats only
LoadChatsOnly(a, st, userKey) ==
    LET userData == loadUserData(st, userKey)
        d == Detach(a)
    IN IF userData # NullObj
       THEN [d EXCEPT !.chats = LoadedChats(userData)]
       ELSE [d EXCEPT !.chats = initializeChats]

loadChats(a, st, userKey) ==
    LET userData == loadUserData(st, userKey)
        d == Detach(a)
    IN IF userData # NullObj
       THEN [d EXCEPT !.chats = LoadedChats(userData),
                      !.friends = Or(userData, "friends", <<>>),
                      !.friendRequests = Or(userData, "friendRequests", <<>>),
                      !.sentFriendRequests = Or(userData, "sentFriendRequests", <<>>)]
       ELSE [d EXCEPT !.chats = initializeChats,
                      !.friends = <<>>,
                      !.friendRequests = <<>>,
                      !.sentFriendRequests = <<>>]

\* the object the version without friend requests serializes
UserDataLegacy(a, username) ==
    [username |-> username, chats |-> a.chats, friends |-> a.friends]

\* the object saveChats serializes
UserData(a, username) ==
    [username |-> username,
     chats |-> a.chats,
     friends |-> a.friends,
     friendRequests |-> a.friendRequests,
     sentFriendRequests |-> a.sentFriendRequests]

saveChats(a, st, userKey, username, ok) ==
    saveUserData(st, userKey, UserData(a, username), ok)

\* the new chat with its name as given
NewChatUntrimmed(name, description, t) ==
    [id |-> t, name |-> name, description |-> Trim(description),
     messages |-> <<>>, createdAt |-> Stamp]

\* the object ChatManager.createChat builds
NewChat(name, description, t) ==
    [id |-> t, name |-> Trim(name), description |-> Trim(description),
     messages |-> <<>>, createdAt |-> Stamp]

\* ChatManager.createChat: the new chat is pushed, whatever its name
createChat(a, name, description, t) ==
    [a EXCEPT !.chats = Append(@, NewChat(name, description, t))]

NewPrivateChat(friendKey, friendUsername, currentUserKey, t) ==
    [id |-> t, name |-> friendUsername, type |-> "private",
     participants |-> <<currentUserKey, friendKey>>,
     messages |-> <<>>, createdAt |-> Stamp]

createPrivateChat(a, friendKey, friendUsername, currentUserKey, t) ==
    [a EXCEPT !.chats = Append(@, NewPrivateChat(friendKey, friendUsername, currentUserKey, t))]

\* findPrivateChat that finds nothing
FindPrivateChatNever(a, friendKey) == 0

\* chats.find(...): the index of the first match, 0 for undefined
findPrivateChat(a, friendKey) ==
    LET hits == { i \in 1..Len(a.chats) : IsPrivateWith(a.chats[i], friendKey) }
    IN IF hits = {} THEN 0 ELSE CHOOSE i \in hits : \A j \in hits : i <= j

\* time (HH:MM) and timestamp (ISO-8601) are two renderings of the same Date
NewMessage(author, text, type, fileData, fileName) ==
    [author |-> author, text |-> Trim(text), time |-> Stamp, timestamp |-> Stamp,
     type |-> type, fileData |-> fileData, fileName |-> fileName]

\* addMessage without the cap
AddMessageNoCap(chat, message) ==
    [m \in {"messages"} |-> Append(Or(chat, "messages", <<>>), message)] @@ chat

\* ChatManager.addMessage on the chat object: push, then keep the last 1000
addMessage(chat, message) ==
    LET pushed == Append(Or(chat, "messages", <<>>), message)
    IN [m \in {"messages"} |->
            IF Len(pushed) > MESSAGE_CAP THEN SliceLast(pushed, MESSAGE_CAP) ELSE pushed]
       @@ chat

FriendRef(key, username) == [key |-> key, username |-> username, addedAt |-> Stamp]
RequestRef(key, username) == [key |-> key, username |-> username, sentAt |-> Stamp]

\* addFriend without the check for the key
AddFriendAlways(friends, friendKey, friendUsername) ==
    Append(friends, FriendRef(friendKey, friendUsername))

\* ChatManager.addFriend on this.friends; the return value is AddFriendRet
addFriend(friends, friendKey, friendUsername) ==
    IF SomeKey(friends, friendKey)
    THEN friends
    ELSE Append(friends, FriendRef(friendKey, friendUsername))

AddFriendRet(friends, friendKey) == ~SomeKey(friends, friendKey)

\* obj.f = v
SetProp(obj, f, v) == [x \in {f} |-> v] @@ obj

\* what a method hands back: the tab's objects, localStorage, the pointer, the
\* return value (or outcome) and whether it ended by throwing
Result(a, st, ptr, ret, threw) ==
    [app |-> a, store |-> st, pointer |-> ptr, ret |-> ret, threw |-> threw]

\* the entry sendFriendRequest pushes to this.sentFriendRequests
SentEntry(targetUserKey, currentUsername) == RequestRef(targetUserKey, currentUsername)

\* the target's record with its requests replaced by the incoming one
WithIncomingOnly(targetUserData, currentUserKey, currentUsername) ==
    SetProp(targetUserData, "friendRequests",
            << RequestRef(currentUserKey, currentUsername) >>)

\* the target's record with the incoming request pushed
WithIncoming(targetUserData, currentUserKey, currentUsername) ==
    SetProp(targetUserData, "friendRequests",
            Append(Or(targetUserData, "friendRequests", <<>>),
                   RequestRef(currentUserKey, currentUsername)))

\* sendFriendRequest without the check for a request already sent
AlreadySentNever(a, targetUserKey) == FALSE

\* this.sentFriendRequests.some(req => req.key === targetUserKey)
AlreadySent(a, targetUserKey) == SomeKey(a.sentFriendRequests, targetUserKey)

\* ChatManager.sendFriendRequest; okTarget: the write of the target's record succeeds
sendFriendRequest(a, st, ptr, targetUserKey, currentUserKey, currentUsername, okTarget) ==
    IF AlreadySent(a, targetUserKey)
    THEN Result(a, st, ptr, "false", FALSE)
    ELSE LET a1 == [a EXCEPT !.sentFriendRequests =
                        Append(@, SentEntry(targetUserKey, currentUsername))]
             targetUserData == loadUserData(st, targetUserKey)
         IN IF targetUserData # NullObj
            THEN Result(a1,
                        saveUserData(st, targetUserKey,
                            WithIncoming(targetUserData, currentUserKey, currentUsername),
                            okTarget),
                        ptr, IF okTarget THEN "true" ELSE "threw", ~okTarget)
            ELSE Result(a1, st, ptr, "true", FALSE)

\* the requester's record with the accepter among its friends and its sent
\* requests as they were
RequesterAcceptedKeepsSent(requesterData, currentUserKey, currentUsername) ==
    SetProp(requesterData, "friends",
            addFriend(Or(requesterData, "friends", <<>>), currentUserKey, currentUsername))

\* the requester's record after acceptFriendRequest rewrote it
RequesterAccepted(requesterData, currentUserKey, currentUsername) ==
    LET r1 == IF Has(requesterData, "sentFriendRequests")
              THEN SetProp(requesterData, "sentFriendRequests",
                           WithoutKey(requesterData.sentFriendRequests, currentUserKey))
              ELSE requesterData
    IN SetProp(r1, "friends",
               addFriend(Or(r1, "friends", <<>>), currentUserKey, currentUsername))

\* ChatManager.acceptFriendRequest; okRequester: the write of the requester's record succeeds
acceptFriendRequestCM(a, st, ptr, requesterKey, requesterUsername, currentUserKey, currentUsername, okRequester) ==
    LET a1 == [a EXCEPT !.friends = addFriend(@, requesterKey, requesterUsername),
                        !.friendRequests = WithoutKey(@, requesterKey)]
        requesterData == loadUserData(st, requesterKey)
    IN IF requesterData # NullObj
       THEN Result(a1,
                   saveUserData(st, requesterKey,
                       RequesterAccepted(requesterData, currentUserKey, currentUsername),
                       okRequester),
                   ptr, IF okRequester THEN "ok" ELSE "threw", ~okRequester)
       ELSE Result(a1, st, ptr, "ok", FALSE)

\* rejectFriendRequest that also drops the requester from the friends
RejectAndUnfriend(a, requesterKey) ==
    [a EXCEPT !.friendRequests = WithoutKey(@, requesterKey),
              !.friends = WithoutKey(@, requesterKey)]

\* ChatManager.rejectFriendRequest
rejectFriendRequestCM(a, requesterKey) ==
    [a EXCEPT !.friendRequests = WithoutKey(@, requesterKey)]

\* searchUsers that compares the letters as they are
SearchUsersCaseSensitive(st, searchTerm, currentUserKey) ==
    { u \in getAllUsers(st) :
        u.key # currentUserKey /\ Includes(u.username, searchTerm) }

\* ChatManager.searchUsers; the array is in the order of localStorage.key, which
\* is the browser's: the users found are kept as a set
searchUsers(st, searchTerm, currentUserKey) ==
    { u \in getAllUsers(st) :
        /\ u.key # currentUserKey
        /\ Includes(ToLowerCase(u.username), ToLowerCase(searchTerm)) }

\* ChatManager.addUserByKey: false when no record is stored under the key
addUserByKeyRet(a, st, userKey) ==
    loadUserData(st, userKey) # NullObj /\ AddFriendRet(a.friends, userKey)

addUserByKey(a, st, userKey, username) ==
    IF loadUserData(st, userKey) = NullObj
    THEN a
    ELSE [a EXCEPT !.friends = addFriend(@, userKey, username)]

-----------------------------------------------------------------------------
(* UIManager *)

\* showScreen: the target screen becomes the active one
showScreen(a, screenId) == [a EXCEPT !.currentScreen = screenId]

\* renderChatList: one item per chat with an id and a name; each item's click
\* handler closes over its chat object
renderChatList(a) ==
    LET valid == { i \in 1..Len(a.chats) : ChatValid(a.chats[i]) }
        nth[n \in 0..Len(a.chats)] ==
            IF n = 0 THEN <<>>
            ELSE IF n \in valid THEN Append(nth[n - 1], LiveRef(n)) ELSE nth[n - 1]
    IN [a EXCEPT !.chatList = nth[Len(a.chats)]]

-----------------------------------------------------------------------------
(* MMessengerApp *)

\* this.typingTimeout when it is undefined or null; setTimeout returns ids from 1
NoTimer == 0

\* reads: the FileReaders of handleFileUpload that have not called back, each
\* with the text and the file its callback holds; selectedIn and selectedBy are
\* not held by the program: they record the id of the chat that was open and
\* the user who was signed in when the file was selected.
\* call: the call of sendFriendRequest this tab is in, between its read of the
\* target's record and its write of it, with the record it read
NoCall == [kind |-> "none"]

\* the element typingIndicator: its style.display and the user name in its text
HiddenIndicator == [display |-> "none", username |-> <<>>]

\* the fields a tab that is not open has; also the fields the constructors set.
\* timers: the timeouts handleTyping armed that are pending in the browser;
\* timerSeq: the last id setTimeout returned; simTimers: the user names the
\* pending timeouts of simulateTypingIndicator captured; hideTimers: the
\* number of pending timeouts of showTypingFromOther
ClosedApp ==
    [open |-> FALSE,
     currentUser |-> <<>>, currentUserKey |-> NoKey, currentChat |-> NoRef,
     chats |-> <<>>, friends |-> <<>>, friendRequests |-> <<>>, sentFriendRequests |-> <<>>,
     currentScreen |-> "none", chatList |-> <<>>, searchResults |-> {},
     isTyping |-> FALSE, typingTimeout |-> NoTimer, timers |-> {}, timerSeq |-> 0,
     indicator |-> HiddenIndicator, simTimers |-> <<>>, hideTimers |-> 0,
     call |-> NoCall, reads |-> <<>>]

NewApp == [ClosedApp EXCEPT !.open = TRUE]

\* the handlers without their check for the user's own key
IsSelfNever(a, userKey) == FALSE

\* userKey === this.currentUserKey
IsSelf(a, userKey) == userKey = a.currentUserKey

\* saveUserData attempts a write only with a key and a name
Saves(a) == a.currentUserKey # NoKey /\ a.currentUser # <<>>

\* MMessengerApp.saveUserData: localStorage after it; it throws iff SaveThrows
saveUserDataApp(a, st, ok) ==
    IF Saves(a) THEN saveChats(a, st, a.currentUserKey, a.currentUser, ok) ELSE st

SaveThrows(a, ok) == Saves(a) /\ ~ok

\* constructor, init, loadUserData
loadUserDataApp(st, ptr) ==
    LET savedKey == ptr
        a1 == [NewApp EXCEPT !.currentUserKey = savedKey]
        userData == loadUserData(st, savedKey)
    IN IF savedKey # NoKey /\ userData # NullObj
       THEN Result(renderChatList(showScreen(
                       loadChats([a1 EXCEPT !.currentUser = Or(userData, "username", <<>>)],
                                 st, savedKey),
                       "chatsScreen")),
                   st, ptr, "chats", FALSE)
       ELSE Result(showScreen(IF savedKey # NoKey THEN a1 ELSE NewApp, "welcomeScreen"),
                   st, ptr, "welcome", FALSE)

\* saveNickname (the screen change is made at once: no animation library)
saveNickname(a, st, ptr, input, ok) ==
    LET nickname == Trim(input)
        key == generateUniqueKey(st)
        a1 == loadChats([a EXCEPT !.currentUser = nickname, !.currentUserKey = key],
                        st, key)
    IN IF nickname = <<>>
       THEN Result(a, st, ptr, "rejected", FALSE)
       ELSE IF SaveThrows(a1, ok)
       THEN Result(a1, st, key, "threw", TRUE)
       ELSE Result(renderChatList(showScreen(a1, "chatsScreen")),
                   saveUserDataApp(a1, st, ok), key, "ok", FALSE)

\* clearTimeout(this.typingTimeout) when it is set
ClearTypingTimeout(a) ==
    IF a.typingTimeout # NoTimer THEN [a EXCEPT !.timers = @ \ {a.typingTimeout}] ELSE a

\* ui.showTypingIndicator(username) and ui.hideTypingIndicator()
showTypingIndicator(a, username) ==
    [a EXCEPT !.indicator = [display |-> "block", username |-> username]]

hideTypingIndicator(a) == [a EXCEPT !.indicator.display = "none"]

\* participants.find(p => p !== this.currentUserKey): NoKey for undefined
OtherParticipant(chat, currentUserKey) ==
    LET others == { i \in 1..Len(chat.participants) : chat.participants[i] # currentUserKey }
    IN IF others = {} THEN NoKey
       ELSE chat.participants[CHOOSE i \in others : \A j \in others : i <= j]

\* simulateTypingIndicator: in a private chat whose other participant is stored,
\* a timeout is armed that holds the other participant's user name
simulateTypingIndicator(a, st) ==
    LET chat == Deref(a, a.currentChat)
        other == OtherParticipant(chat, a.currentUserKey)
        otherUserData == loadUserData(st, other)
    IN IF /\ a.currentChat # NoRef
          /\ Has(chat, "type") /\ chat.type = "private"
          /\ other # NoKey
          /\ otherUserData # NullObj
       THEN [a EXCEPT !.simTimers = Append(@, Or(otherUserData, "username", <<>>))]
       ELSE a

\* startTyping
startTyping(a, st) ==
    IF ~a.isTyping /\ a.currentChat # NoRef
    THEN simulateTypingIndicator(
             showTypingIndicator([a EXCEPT !.isTyping = TRUE], a.currentUser), st)
    ELSE a

\* stopTyping
stopTyping(a) ==
    IF a.isTyping
    THEN [hideTypingIndicator(ClearTypingTimeout(a))
             EXCEPT !.isTyping = FALSE, !.typingTimeout = NoTimer]
    ELSE a

\* handleTyping that arms the new timeout and leaves the pending one
HandleTypingNoCancel(a, st) ==
    [startTyping(a, st) EXCEPT !.typingTimeout = a.timerSeq + 1,
                               !.timers = @ \cup {a.timerSeq + 1},
                               !.timerSeq = a.timerSeq + 1]

\* handleTyping: the listener of the input event of the message input
handleTyping(a, st) ==
    [startTyping(ClearTypingTimeout(a), st) EXCEPT !.typingTimeout = a.timerSeq + 1,
                                                   !.timers = @ \cup {a.timerSeq + 1},
                                                   !.timerSeq = a.timerSeq + 1]

\* s without its element at position i
RemoveAt(s, i) == SubSeq(s, 1, i - 1) \o SubSeq(s, i + 1, Len(s))

\* the callback of the i-th pending timeout of simulateTypingIndicator:
\* showTypingFromOther when Math.random() > 0.7 (shows), nothing otherwise
simulatedTypingFires(a, i, shows) ==
    LET a1 == [a EXCEPT !.simTimers = RemoveAt(@, i)]
    IN IF shows
       THEN [showTypingIndicator(a1, a.simTimers[i]) EXCEPT !.hideTimers = @ + 1]
       ELSE a1

\* the callback of a timeout of showTypingFromOther
hideTimeoutFires(a) == hideTypingIndicator([a EXCEPT !.hideTimers = @ - 1])

\* the callback of the timeout id, after 1000 ms: () => this.stopTyping()
typingTimeoutFires(a, id) == stopTyping([a EXCEPT !.timers = @ \ {id}])

\* openChat on the chat object a click closure or startChatWithFriend hands over
openChat(a, ref) ==
    IF ~Has(Deref(a, ref), "id") \/ Deref(a, ref).id = 0
    THEN a
    ELSE showScreen(hideTypingIndicator(stopTyping([a EXCEPT !.currentChat = ref])),
                    "chatScreen")

\* the tab after a method changed the chat object behind a reference
WithChat(a, ref, chat) ==
    IF ref.kind = "live"
    THEN [a EXCEPT !.chats[ref.idx] = chat]
    ELSE [a EXCEPT !.currentChat = StaleRef(chat)]

\* sendMessage() without a file
sendMessage(a, st, ptr, input, ok) ==
    LET text == Trim(input)
        a1 == WithChat(a, a.currentChat,
                       addMessage(Deref(a, a.currentChat),
                                  NewMessage(a.currentUser, text, "text", Null, Null)))
    IN IF text = <<>>
       THEN Result(a, st, ptr, "rejected", FALSE)
       ELSE IF a.currentChat = NoRef
       THEN Result(a, st, ptr, "nochat", FALSE)
       ELSE IF SaveThrows(a1, ok)
       THEN Result(a1, st, ptr, "caught", FALSE)
       ELSE Result(stopTyping(a1), saveUserDataApp(a1, st, ok), ptr, "ok", FALSE)

\* handleFileSelect with a file chosen, and the handleFileUpload it calls: a
\* FileReader starts to read the file
handleFileSelect(a, input) ==
    [a EXCEPT !.reads = Append(@, [text |-> Trim(input), fileName |-> <<"f">>,
                                   selectedIn |-> IF a.currentChat = NoRef THEN 0
                                                  ELSE Deref(a, a.currentChat).id,
                                   selectedBy |-> a.currentUser])]

\* reader.onload of the i-th pending read: addMessage on this.currentChat (a
\* TypeError when it is null), saveUserData, stopTyping; nothing catches
fileLoaded(a, st, ptr, i, ok) ==
    LET rd == a.reads[i]
        a0 == [a EXCEPT !.reads = RemoveAt(@, i)]
        a1 == WithChat(a0, a0.currentChat,
                       addMessage(Deref(a0, a0.currentChat),
                                  NewMessage(a0.currentUser, rd.text, "file",
                                             <<"d">>, rd.fileName)))
    IN IF a.currentChat = NoRef
       THEN Result(a0, st, ptr, "typeerror", TRUE)
       ELSE IF SaveThrows(a1, ok)
       THEN Result(a1, st, ptr, "threw", TRUE)
       ELSE Result(stopTyping(a1), saveUserDataApp(a1, st, ok), ptr, "ok", FALSE)

\* backToChats
backToChats(a) == showScreen(renderChatList(a), "chatsScreen")

\* createChat of the controller
createChatApp(a, st, ptr, nameInput, descInput, t, ok) ==
    LET name == Trim(nameInput)
        a1 == createChat(a, name, descInput, t)
    IN IF name = <<>>
       THEN Result(a, st, ptr, "rejected", FALSE)
       ELSE IF SaveThrows(a1, ok)
       THEN Result(a1, st, ptr, "caught", FALSE)
       ELSE Result(renderChatList(a1), saveUserDataApp(a1, st, ok), ptr, "ok", FALSE)

\* logout that leaves the user's name and key in the fields
LogoutKeepsUser(a) ==
    LET d == Detach(a)
    IN showScreen([d EXCEPT !.currentChat = NoRef, !.chats = <<>>, !.friends = <<>>],
                  "welcomeScreen")

\* logout: friendRequests and sentFriendRequests are not reset
logout(a) ==
    LET d == Detach(a)
    IN showScreen([d EXCEPT !.currentUser = <<>>, !.currentUserKey = NoKey,
                            !.currentChat = NoRef, !.chats = <<>>, !.friends = <<>>],
                  "welcomeScreen")

\* refreshChats
refreshChats(a, st) == renderChatList(loadChats(a, st, a.currentUserKey))

\* showFriendsModal and showFriendRequestsModal: a reload, the chat list is not rendered
showFriendsModal(a, st) == loadChats(a, st, a.currentUserKey)

showFriendRequestsModal(a, st) == loadChats(a, st, a.currentUserKey)

\* getUserKeyByUsername returns the first stored key, in localStorage.key order,
\* whose record has this username; that order is the browser's, so any match
\* can be the first
KeysByUsername(st, username) ==
    { k \in Keys : /\ loadUserData(st, k) # NullObj
                   /\ Has(st[k].data, "username")
                   /\ st[k].data.username = username }

\* sendFriendRequest up to and with its read of the target's record
\* (localStorage.getItem): the entry is pushed to the sent requests
sendFriendRequestLoad(a, st, ptr, targetUserKey) ==
    IF AlreadySent(a, targetUserKey)
    THEN Result(a, st, ptr, "false", FALSE)
    ELSE Result([a EXCEPT !.sentFriendRequests =
                              Append(@, SentEntry(targetUserKey, a.currentUser)),
                          !.call = [kind |-> "sendFriendRequest",
                                    targetUserKey |-> targetUserKey,
                                    targetUserData |-> loadUserData(st, targetUserKey)]],
                st, ptr, "loaded", FALSE)

\* the rest of the call that reads the target's record again before it pushes
SendFriendRequestSaveFresh(a, st, ptr) ==
    LET targetUserData == loadUserData(st, a.call.targetUserKey)
        a1 == [a EXCEPT !.call = NoCall]
        st1 == IF targetUserData # NullObj
               THEN saveUserData(st, a.call.targetUserKey,
                                 WithIncoming(targetUserData, a.currentUserKey, a.currentUser),
                                 TRUE)
               ELSE st
    IN Result(a1, saveUserDataApp(a1, st1, TRUE), ptr, "true", FALSE)

\* the rest of sendFriendRequest, from the push to the record it read to the
\* write of the target's record (localStorage.setItem), and the saveUserData of
\* sendFriendRequestByName after it; no write fails
sendFriendRequestSave(a, st, ptr) ==
    LET targetUserData == a.call.targetUserData
        a1 == [a EXCEPT !.call = NoCall]
        st1 == IF targetUserData # NullObj
               THEN saveUserData(st, a.call.targetUserKey,
                                 WithIncoming(targetUserData, a.currentUserKey, a.currentUser),
                                 TRUE)
               ELSE st
    IN Result(a1, saveUserDataApp(a1, st1, TRUE), ptr, "true", FALSE)

\* sendFriendRequestByName, with userKey what getUserKeyByUsername returned
sendFriendRequestByName(a, st, ptr, userKey, okTarget, ok) ==
    LET r == sendFriendRequest(a, st, ptr, userKey, a.currentUserKey, a.currentUser,
                               okTarget)
    IN IF userKey = NoKey
       THEN Result(a, st, ptr, "notfound", FALSE)
       ELSE IF IsSelf(a, userKey)
       THEN Result(a, st, ptr, "rejected", FALSE)
       ELSE IF r.threw \/ r.ret = "false"
       THEN r
       ELSE IF SaveThrows(r.app, ok)
       THEN Result(r.app, r.store, ptr, "threw", TRUE)
       ELSE Result(r.app, saveUserDataApp(r.app, r.store, ok), ptr, "true", FALSE)

\* acceptFriendRequest of the controller: accept, save, reload
acceptFriendRequest(a, st, ptr, requesterKey, requesterUsername, okRequester, ok) ==
    LET r == acceptFriendRequestCM(a, st, ptr, requesterKey, requesterUsername,
                                   a.currentUserKey, a.currentUser, okRequester)
        st2 == saveUserDataApp(r.app, r.store, ok)
    IN IF r.threw
       THEN r
       ELSE IF SaveThrows(r.app, ok)
       THEN Result(r.app, r.store, ptr, "threw", TRUE)
       ELSE Result(loadChats(r.app, st2, a.currentUserKey), st2, ptr, "ok", FALSE)

\* rejectFriendRequest of the controller: reject, save, reload
rejectFriendRequest(a, st, ptr, requesterKey, ok) ==
    LET a1 == rejectFriendRequestCM(a, requesterKey)
        st2 == saveUserDataApp(a1, st, ok)
    IN IF SaveThrows(a1, ok)
       THEN Result(a1, st, ptr, "threw", TRUE)
       ELSE Result(loadChats(a1, st2, a.currentUserKey), st2, ptr, "ok", FALSE)

\* addFriend of the controller (the direct add)
addFriendApp(a, st, ptr, userKey, username, ok) ==
    LET a1 == [a EXCEPT !.friends = addFriend(@, userKey, username)]
    IN IF IsSelf(a, userKey)
       THEN Result(a, st, ptr, "rejected", FALSE)
       ELSE IF ~AddFriendRet(a.friends, userKey)
       THEN Result(a, st, ptr, "false", FALSE)
       ELSE IF SaveThrows(a1, ok)
       THEN Result(a1, st, ptr, "threw", TRUE)
       ELSE Result(a1, saveUserDataApp(a1, st, ok), ptr, "true", FALSE)

\* addFriendByKey; friendKey is the trimmed key input (NoKey when empty)
addFriendByKey(a, st, ptr, friendKey, nameInput, ok) ==
    LET friendName == Trim(nameInput)
        a1 == addUserByKey(a, st, friendKey, friendName)
    IN IF friendKey = NoKey \/ friendName = <<>>
       THEN Result(a, st, ptr, "rejected", FALSE)
       ELSE IF IsSelf(a, friendKey)
       THEN Result(a, st, ptr, "rejected", FALSE)
       ELSE IF SomeKey(a.friends, friendKey)
       THEN Result(a, st, ptr, "already", FALSE)
       ELSE IF ~addUserByKeyRet(a, st, friendKey)
       THEN Result(a, st, ptr, "notfound", FALSE)
       ELSE IF SaveThrows(a1, ok)
       THEN Result(a1, st, ptr, "caught", FALSE)
       ELSE Result(a1, saveUserDataApp(a1, st, ok), ptr, "ok", FALSE)

\* startChatWithFriend
startChatWithFriend(a, st, ptr, friendKey, friendUsername, t, ok) ==
    LET found == findPrivateChat(a, friendKey)
        a1 == createPrivateChat(a, friendKey, friendUsername, a.currentUserKey, t)
    IN IF found # 0
       THEN Result(openChat(a, LiveRef(found)), st, ptr, "found", FALSE)
       ELSE IF SaveThrows(a1, ok)
       THEN Result(a1, st, ptr, "threw", TRUE)
       ELSE Result(openChat(a1, LiveRef(Len(a1.chats))),
                   saveUserDataApp(a1, st, ok), ptr, "created", FALSE)

\* restoreChats that takes the key over before it looks the record up
RestoreChatsEager(a, st, ptr, restoreKey, confirmed) ==
    LET userData == loadUserData(st, restoreKey)
        a1 == [a EXCEPT !.currentUserKey = restoreKey]
    IN IF restoreKey = NoKey
       THEN Result(a, st, ptr, "rejected", FALSE)
       ELSE IF userData = NullObj
       THEN Result(a1, st, ptr, "notfound", FALSE)
       ELSE IF ~confirmed
       THEN Result(a1, st, ptr, "declined", FALSE)
       ELSE Result(renderChatList(
                       loadChats([a1 EXCEPT !.currentUser = Or(userData, "username", <<>>)],
                                 st, restoreKey)),
                   st, restoreKey, "ok", FALSE)

\* restoreChats; restoreKey is the trimmed key input, confirmed the user's answer
restoreChats(a, st, ptr, restoreKey, confirmed) ==
    LET userData == loadUserData(st, restoreKey)
    IN IF restoreKey = NoKey
       THEN Result(a, st, ptr, "rejected", FALSE)
       ELSE IF userData = NullObj
       THEN Result(a, st, ptr, "notfound", FALSE)
       ELSE IF ~confirmed
       THEN Result(a, st, ptr, "declined", FALSE)
       ELSE Result(renderChatList(
                       loadChats([a EXCEPT !.currentUserKey = restoreKey,
                                           !.currentUser = Or(userData, "username", <<>>)],
                                 st, restoreKey)),
                   st, restoreKey, "ok", FALSE)

\* the 30-second interval: save when there is a key and a chat
autoSave(a, st, ptr, ok) ==
    IF a.currentUserKey # NoKey /\ Len(a.chats) > 0
    THEN Result(a, saveUserDataApp(a, st, ok), ptr,
                IF SaveThrows(a, ok) THEN "threw" ELSE "ok", SaveThrows(a, ok))
    ELSE Result(a, st, ptr, "skipped", FALSE)

\* the beforeunload listener: save when there is a key; then the page is gone
unload(a, st, ptr, ok) ==
    IF a.currentUserKey # NoKey
    THEN Result(ClosedApp, saveUserDataApp(a, st, ok), ptr,
                IF SaveThrows(a, ok) THEN "threw" ELSE "ok", SaveThrows(a, ok))
    ELSE Result(ClosedApp, st, ptr, "skipped", FALSE)

-----------------------------------------------------------------------------
(* The state machine *)

NoName == <<>>
NoOp == [op |-> "init", t |-> 0, key |-> NoKey, name |-> NoName, ret |-> "none"]

\* the outcomes of one localStorage.setItem
OkSet == IF failures < limits.failures THEN BOOLEAN ELSE {TRUE}

\* the handlers that add data
AddingOps ==
    {"saveNickname", "createChat", "sendMessage", "sendFriendRequestByName",
     "acceptFriendRequest", "addFriend", "addFriendByKey", "startChatWithFriend",
     "handleFileSelect"}

\* the outcomes that refuse the request
Refusals == {"rejected", "false", "notfound", "already", "nochat"}

\* A handler ran in tab t with result r, reading the clock as clock.  A run that
\* changes nothing and refuses nothing is a stuttering step.
Do(t, op, key, name, result, clock) ==
    \E r \in {result} :
       LET changed == r.app # tab[t] \/ r.store # store \/ r.pointer # pointer
           counted == op \in AddingOps \/ r.ret \in Refusals
       IN IF ~changed /\ r.ret \notin Refusals
          THEN UNCHANGED vars
          ELSE /\ counted => written < limits.written
               /\ tab' = [tab EXCEPT ![t] = r.app]
               /\ store' = r.store
               /\ pointer' = r.pointer
               /\ now' = clock
               /\ failures' = IF r.threw \/ r.ret = "caught" THEN failures + 1 ELSE failures
               /\ written' = IF counted THEN written + 1 ELSE written
               /\ last' = [op |-> op, t |-> t, key |-> key, name |-> name, ret |-> r.ret]
               /\ UNCHANGED limits

\* Date.now() never goes back
Clock == { c \in Times : c >= now }

SignedInScreen(a) == a.open /\ a.currentScreen \in {"chatsScreen", "chatScreen"}

OpenTab(t) ==
    /\ ~tab[t].open
    /\ t <= limits.tabs
    /\ Do(t, "loadUserData", pointer, NoName, loadUserDataApp(store, pointer), now)

Unload(t) ==
    /\ tab[t].open
    /\ \E ok \in OkSet :
          Do(t, "unload", tab[t].currentUserKey, NoName, unload(tab[t], store, pointer, ok), now)

AutoSave(t) ==
    /\ tab[t].open
    /\ \E ok \in OkSet :
          Do(t, "autoSave", tab[t].currentUserKey, NoName, autoSave(tab[t], store, pointer, ok), now)

SaveNickname(t) ==
    /\ tab[t].open
    /\ tab[t].currentScreen = "welcomeScreen"
    /\ FreshKeys(store) # {}
    /\ \E input \in NameInputs, ok \in OkSet :
          Do(t, "saveNickname", generateUniqueKey(store), Trim(input),
             saveNickname(tab[t], store, pointer, input, ok), now)

\* a click on an item of the rendered chat list
OpenChat(t) ==
    /\ tab[t].open
    /\ tab[t].currentScreen = "chatsScreen"
    /\ \E i \in 1..Len(tab[t].chatList) :
          Do(t, "openChat", NoKey, NoName,
             Result(openChat(tab[t], tab[t].chatList[i]), store, pointer, "none", FALSE), now)

SendMessage(t) ==
    /\ tab[t].open
    /\ tab[t].currentScreen = "chatScreen"
    /\ \E input \in TextInputs, ok \in OkSet :
          Do(t, "sendMessage", tab[t].currentUserKey, Trim(input),
             sendMessage(tab[t], store, pointer, input, ok), now)

BackToChats(t) ==
    /\ tab[t].open
    /\ tab[t].currentScreen = "chatScreen"
    /\ Do(t, "backToChats", NoKey, NoName,
          Result(backToChats(tab[t]), store, pointer, "none", FALSE), now)

CreateChat(t) ==
    /\ tab[t].open
    /\ tab[t].currentScreen = "chatsScreen"
    /\ \E nameInput \in ChatNameInputs, descInput \in DescInputs, ok \in OkSet, c \in Clock :
          Do(t, "createChat", tab[t].currentUserKey, Trim(nameInput),
             createChatApp(tab[t], store, pointer, nameInput, descInput, c, ok), c)

Logout(t) ==
    /\ SignedInScreen(tab[t])
    /\ Do(t, "logout", tab[t].currentUserKey, NoName,
          Result(logout(tab[t]), clearCurrentUser(store, pointer).store,
                 clearCurrentUser(store, pointer).pointer, "none", FALSE), now)

RefreshChats(t) ==
    /\ tab[t].open
    /\ tab[t].currentScreen = "chatsScreen"
    /\ Do(t, "refreshChats", tab[t].currentUserKey, NoName,
          Result(refreshChats(tab[t], store), store, pointer, "none", FALSE), now)

ShowFriendsModal(t) ==
    /\ SignedInScreen(tab[t])
    /\ Do(t, "showFriendsModal", tab[t].currentUserKey, NoName,
          Result(showFriendsModal(tab[t], store), store, pointer, "none", FALSE), now)

ShowFriendRequestsModal(t) ==
    /\ SignedInScreen(tab[t])
    /\ Do(t, "showFriendRequestsModal", tab[t].currentUserKey, NoName,
          Result(showFriendRequestsModal(tab[t], store), store, pointer, "none", FALSE), now)

\* the button of a search result: a stored user other than, by key, the signed-in one
SendFriendRequestByName(t) ==
    /\ SignedInScreen(tab[t])
    /\ \E u \in getAllUsers(store), okTarget \in OkSet, ok \in OkSet :
          /\ u.key # tab[t].currentUserKey
          /\ \E userKey \in KeysByUsername(store, u.username) :
                Do(t, "sendFriendRequestByName", userKey, u.username,
                   sendFriendRequestByName(tab[t], store, pointer, userKey, okTarget, ok),
                   now)

\* the accept button of a rendered request
AcceptFriendRequest(t) ==
    /\ SignedInScreen(tab[t])
    /\ \E i \in 1..Len(tab[t].friendRequests), okRequester \in OkSet, ok \in OkSet :
          Do(t, "acceptFriendRequest", tab[t].friendRequests[i].key, tab[t].friendRequests[i].username,
             acceptFriendRequest(tab[t], store, pointer, tab[t].friendRequests[i].key,
                                 tab[t].friendRequests[i].username, okRequester, ok), now)

\* the reject button of a rendered request
RejectFriendRequest(t) ==
    /\ SignedInScreen(tab[t])
    /\ \E i \in 1..Len(tab[t].friendRequests), ok \in OkSet :
          Do(t, "rejectFriendRequest", tab[t].friendRequests[i].key, NoName,
             rejectFriendRequest(tab[t], store, pointer, tab[t].friendRequests[i].key, ok),
             now)

\* the direct add of a stored user
AddFriend(t) ==
    /\ SignedInScreen(tab[t])
    /\ \E u \in getAllUsers(store), ok \in OkSet :
          Do(t, "addFriend", u.key, u.username,
             addFriendApp(tab[t], store, pointer, u.key, u.username, ok), now)

AddFriendByKey(t) ==
    /\ SignedInScreen(tab[t])
    /\ \E friendKey \in Keys \cup {NoKey}, nameInput \in FriendNameInputs, ok \in OkSet :
          Do(t, "addFriendByKey", friendKey, Trim(nameInput),
             addFriendByKey(tab[t], store, pointer, friendKey, nameInput, ok), now)

\* the chat button of a rendered friend
StartChatWithFriend(t) ==
    /\ SignedInScreen(tab[t])
    /\ \E i \in 1..Len(tab[t].friends), ok \in OkSet, c \in Clock :
          Do(t, "startChatWithFriend", tab[t].friends[i].key, tab[t].friends[i].username,
             startChatWithFriend(tab[t], store, pointer, tab[t].friends[i].key,
                                 tab[t].friends[i].username, c, ok),
             IF findPrivateChat(tab[t], tab[t].friends[i].key) # 0 THEN now ELSE c)

RestoreChats(t) ==
    /\ tab[t].open
    /\ \E restoreKey \in Keys \cup {NoKey}, confirmed \in BOOLEAN :
          Do(t, "restoreChats", restoreKey, NoName,
             restoreChats(tab[t], store, pointer, restoreKey, confirmed), now)

\* the record saveNickname writes for a new user
FreshProfile(username) ==
    [username |-> username, chats |-> initializeChats, friends |-> <<>>,
     friendRequests |-> <<>>, sentFriendRequests |-> <<>>]

\* localStorage as earlier sessions left it: some users have signed up (saveNickname)
\* and nothing else has happened; the last one may have logged out.  Keys and names are taken up to
\* renaming: the first user is "a", the second has the same name or another one.
\* The last store has an item that does not parse (localStorage is open to the
\* other scripts of the origin and to the user).
EarlierSessions ==
    { [k \in Keys |-> AbsentItem],
      [k \in Keys |-> IF k = 1 THEN Stringify(FreshProfile(sA)) ELSE AbsentItem],
      [k \in Keys |-> IF k = 1 THEN Stringify(FreshProfile(sA))
                      ELSE IF k = 2 THEN Stringify(FreshProfile(sA)) ELSE AbsentItem],
      [k \in Keys |-> IF k = 1 THEN Stringify(FreshProfile(sA))
                      ELSE IF k = 2 THEN Stringify(FreshProfile(sB)) ELSE AbsentItem],
      [k \in Keys |-> IF k = 1 THEN Stringify(FreshProfile(sA))
                      ELSE IF k = 2 THEN CorruptItem ELSE AbsentItem] }

Init ==
    /\ store \in EarlierSessions
    /\ pointer \in {NoKey} \cup { k \in Keys : store[k] # AbsentItem }
    /\ tab = [t \in Tabs |-> IF t = 1 THEN loadUserDataApp(store, pointer).app ELSE ClosedApp]
    /\ now = FirstTime
    /\ limits = [tabs |-> 1, written |-> MaxWritten, failures |-> MaxFailures]
    /\ written = 0
    /\ failures = 0
    /\ last = NoOp

Next ==
    \/ \E t \in Tabs : OpenTab(t)
    \/ \E t \in Tabs : Unload(t)
    \/ \E t \in Tabs : AutoSave(t)
    \/ \E t \in Tabs : SaveNickname(t)
    \/ \E t \in Tabs : OpenChat(t)
    \/ \E t \in Tabs : SendMessage(t)
    \/ \E t \in Tabs : BackToChats(t)
    \/ \E t \in Tabs : CreateChat(t)
    \/ \E t \in Tabs : Logout(t)
    \/ \E t \in Tabs : RefreshChats(t)
    \/ \E t \in Tabs : ShowFriendsModal(t)
    \/ \E t \in Tabs : ShowFriendRequestsModal(t)
    \/ \E t \in Tabs : SendFriendRequestByName(t)
    \/ \E t \in Tabs : AcceptFriendRequest(t)
    \/ \E t \in Tabs : RejectFriendRequest(t)
    \/ \E t \in Tabs : AddFriend(t)
    \/ \E t \in Tabs : AddFriendByKey(t)
    \/ \E t \in Tabs : StartChatWithFriend(t)
    \/ \E t \in Tabs : RestoreChats(t)

Spec == Init /\ [][Next]_vars

-----------------------------------------------------------------------------
(* The friend requests of two stored users, the page open in up to MaxTabs tabs
   of one browser (one localStorage), and no write failing *)

InitRequests ==
    /\ store = [k \in Keys |-> IF k = 1 THEN Stringify(FreshProfile(sA))
                               ELSE IF k = 2 THEN Stringify(FreshProfile(sB))
                               ELSE AbsentItem]
    /\ pointer \in {NoKey, 1}
    /\ tab = [t \in Tabs |-> IF t = 1 THEN loadUserDataApp(store, pointer).app ELSE ClosedApp]
    /\ now = FirstTime
    /\ limits = [tabs |-> MaxTabs, written |-> MaxWritten, failures |-> 0]
    /\ written = 0
    /\ failures = 0
    /\ last = NoOp

\* send, accept, reject, reload, logout and restore, from any open tab
NextRequests ==
    \/ \E t \in Tabs : OpenTab(t)
    \/ \E t \in Tabs : Logout(t)
    \/ \E t \in Tabs : RefreshChats(t)
    \/ \E t \in Tabs : ShowFriendRequestsModal(t)
    \/ \E t \in Tabs : SendFriendRequestByName(t)
    \/ \E t \in Tabs : AcceptFriendRequest(t)
    \/ \E t \in Tabs : RejectFriendRequest(t)
    \/ \E t \in Tabs : RestoreChats(t)

SpecRequests == InitRequests /\ [][NextRequests]_vars

\* the same, with the saves that no click starts: each tab's periodic save and
\* its save at unload
NextSync ==
    \/ \E t \in Tabs : OpenTab(t)
    \/ \E t \in Tabs : Logout(t)
    \/ \E t \in Tabs : RefreshChats(t)
    \/ \E t \in Tabs : ShowFriendRequestsModal(t)
    \/ \E t \in Tabs : SendFriendRequestByName(t)
    \/ \E t \in Tabs : AcceptFriendRequest(t)
    \/ \E t \in Tabs : RejectFriendRequest(t)
    \/ \E t \in Tabs : RestoreChats(t)
    \/ \E t \in Tabs : AutoSave(t)
    \/ \E t \in Tabs : Unload(t)

SpecSync == InitRequests /\ [][NextSync]_vars

-----------------------------------------------------------------------------
(* The chats with a friend: two stored users who are friends of each other, the
   page open in up to MaxTabs tabs, and no write failing *)

\* the record of a user who has added a friend
FriendsProfile(username, friendKey, friendUsername) ==
    [FreshProfile(username) EXCEPT !.friends = << FriendRef(friendKey, friendUsername) >>]

InitFriends ==
    /\ store = [k \in Keys |-> IF k = 1 THEN Stringify(FriendsProfile(sA, 2, sB))
                               ELSE IF k = 2 THEN Stringify(FriendsProfile(sB, 1, sA))
                               ELSE AbsentItem]
    /\ pointer \in {NoKey, 1}
    /\ tab = [t \in Tabs |-> IF t = 1 THEN loadUserDataApp(store, pointer).app ELSE ClosedApp]
    /\ now = FirstTime
    /\ limits = [tabs |-> MaxTabs, written |-> MaxWritten, failures |-> 0]
    /\ written = 0
    /\ failures = 0
    /\ last = NoOp

\* the handlers that read or write the chat list, but for createChat: private
\* chats are created by startChatWithFriend only
NextFriends ==
    \/ \E t \in Tabs : OpenTab(t)
    \/ \E t \in Tabs : Unload(t)
    \/ \E t \in Tabs : AutoSave(t)
    \/ \E t \in Tabs : OpenChat(t)
    \/ \E t \in Tabs : BackToChats(t)
    \/ \E t \in Tabs : Logout(t)
    \/ \E t \in Tabs : RefreshChats(t)
    \/ \E t \in Tabs : ShowFriendsModal(t)
    \/ \E t \in Tabs : StartChatWithFriend(t)
    \/ \E t \in Tabs : RestoreChats(t)

SpecFriends == InitFriends /\ [][NextFriends]_vars

-----------------------------------------------------------------------------
(* Two tabs that send requests at the same time.  A handler runs to completion
   in its tab, and each call of localStorage is atomic, but nothing keeps the
   other tab from running between the getItem and the setItem of a call: the
   call of sendFriendRequest is two steps here.  Three users are stored, so
   that two of them can send to the third. *)

RaceKeys == 1..(MaxUsers + 1)

\* the user names of the three: "a", "B", and "a" again
RaceName(k) == IF k = 2 THEN sB ELSE sA

\* the tab of a user who has signed in (restoreChats) and is on the chat list
SignedInApp(st, k) ==
    renderChatList(showScreen(
        loadChats([NewApp EXCEPT !.currentUser = RaceName(k), !.currentUserKey = k], st, k),
        "chatsScreen"))

\* tab t clicks the request button of a user other than its own
RaceSendLoad(t) ==
    /\ SignedInScreen(tab[t])
    /\ tab[t].call = NoCall
    /\ \E targetUserKey \in RaceKeys \ {tab[t].currentUserKey} :
          Do(t, "sendFriendRequestLoad", targetUserKey, RaceName(targetUserKey),
             sendFriendRequestLoad(tab[t], store, pointer, targetUserKey), now)

\* the call of tab t goes on to its writes
RaceSendSave(t) ==
    /\ tab[t].call # NoCall
    /\ Do(t, "sendFriendRequestSave", tab[t].call.targetUserKey, NoName,
          sendFriendRequestSave(tab[t], store, pointer), now)

\* tab t, in no call, reloads its working set
RaceRefreshChats(t) == tab[t].call = NoCall /\ RefreshChats(t)

RaceShowFriendRequestsModal(t) == tab[t].call = NoCall /\ ShowFriendRequestsModal(t)

\* tab 1 has the first user signed in; in tab 2 another user restored a profile
InitRace ==
    /\ store = [k \in RaceKeys |-> Stringify(FreshProfile(RaceName(k)))]
    /\ pointer \in RaceKeys \ {1}
    /\ tab = [t \in Tabs |-> IF t = 1 THEN SignedInApp(store, 1)
                             ELSE IF t = 2 THEN SignedInApp(store, pointer)
                             ELSE ClosedApp]
    /\ now = FirstTime
    /\ limits = [tabs |-> 2, written |-> MaxWritten, failures |-> 0]
    /\ written = 0
    /\ failures = 0
    /\ last = NoOp

NextRace ==
    \/ \E t \in Tabs : RaceSendLoad(t)
    \/ \E t \in Tabs : RaceSendSave(t)
    \/ \E t \in Tabs : RaceRefreshChats(t)
    \/ \E t \in Tabs : RaceShowFriendRequestsModal(t)

SpecRace == InitRace /\ [][NextRace]_vars

-----------------------------------------------------------------------------
(* File messages: the user picks a file in a chat and does something else
   before the FileReader calls back *)

\* a file is chosen in the file input of the chat screen, with or without text
HandleFileSelect(t) ==
    /\ tab[t].open
    /\ tab[t].currentScreen = "chatScreen"
    /\ \E input \in TextInputs :
          Do(t, "handleFileSelect", tab[t].currentUserKey, Trim(input),
             Result(handleFileSelect(tab[t], input), store, pointer, "none", FALSE), now)

\* a FileReader has read its file; readers finish in any order
FileLoaded(t) ==
    /\ tab[t].open
    /\ \E i \in 1..Len(tab[t].reads), ok \in OkSet :
          Do(t, "fileLoaded", i, tab[t].reads[i].fileName,
             fileLoaded(tab[t], store, pointer, i, ok), now)

InitFile ==
    /\ store = [k \in Keys |-> IF k = 1 THEN Stringify(FreshProfile(sA))
                               ELSE IF k = 2 THEN Stringify(FreshProfile(sB))
                               ELSE AbsentItem]
    /\ pointer = 1
    /\ tab = [t \in Tabs |-> IF t = 1 THEN loadUserDataApp(store, pointer).app ELSE ClosedApp]
    /\ now = FirstTime
    /\ limits = [tabs |-> 1, written |-> MaxWritten, failures |-> 0]
    /\ written = 0
    /\ failures = 0
    /\ last = NoOp

NextFile ==
    \/ \E t \in Tabs : OpenChat(t)
    \/ \E t \in Tabs : BackToChats(t)
    \/ \E t \in Tabs : CreateChat(t)
    \/ \E t \in Tabs : Logout(t)
    \/ \E t \in Tabs : RestoreChats(t)
    \/ \E t \in Tabs : HandleFileSelect(t)
    \/ \E t \in Tabs : FileLoaded(t)

SpecFile == InitFile /\ [][NextFile]_vars

-----------------------------------------------------------------------------
(* The typing indicator: one signed-in user who opens chats, types, sends and
   pauses *)

\* an input event of the message input, which is on the chat screen
HandleTyping(t) ==
    /\ tab[t].open
    /\ tab[t].currentScreen = "chatScreen"
    /\ tab[t].timerSeq < MaxKeystrokes
    /\ Do(t, "handleTyping", NoKey, NoName,
          Result(handleTyping(tab[t], store), store, pointer, "none", FALSE), now)

\* a pending timeout of handleTyping runs its callback
TypingTimeout(t) ==
    /\ tab[t].open
    /\ \E id \in tab[t].timers :
          Do(t, "typingTimeout", id, NoName,
             Result(typingTimeoutFires(tab[t], id), store, pointer, "none", FALSE), now)

InitTyping ==
    /\ store = [k \in Keys |-> IF k = 1 THEN Stringify(FreshProfile(sA)) ELSE AbsentItem]
    /\ pointer = 1
    /\ tab = [t \in Tabs |-> IF t = 1 THEN loadUserDataApp(store, pointer).app ELSE ClosedApp]
    /\ now = FirstTime
    /\ limits = [tabs |-> 1, written |-> MaxWritten, failures |-> MaxFailures]
    /\ written = 0
    /\ failures = 0
    /\ last = NoOp

NextTyping ==
    \/ \E t \in Tabs : OpenChat(t)
    \/ \E t \in Tabs : BackToChats(t)
    \/ \E t \in Tabs : SendMessage(t)
    \/ \E t \in Tabs : HandleTyping(t)
    \/ \E t \in Tabs : TypingTimeout(t)

SpecTyping == InitTyping /\ [][NextTyping]_vars

\* a timeout that stays pending runs its callback: the event loop is not blocked
\* for ever, and the keystrokes of a behaviour are MaxKeystrokes at most
SpecTypingFair == SpecTyping /\ \A t \in Tabs : WF_vars(TypingTimeout(t))

-----------------------------------------------------------------------------
(* The simulated typing of the other participant: a user with a friend, who
   starts the chat with the friend, types, and moves on *)

\* a pending timeout of simulateTypingIndicator runs its callback
SimulatedTyping(t) ==
    /\ tab[t].open
    /\ \E i \in 1..Len(tab[t].simTimers), shows \in BOOLEAN :
          Do(t, "simulatedTyping", NoKey, tab[t].simTimers[i],
             Result(simulatedTypingFires(tab[t], i, shows), store, pointer,
                    IF shows THEN "shown" ELSE "none", FALSE), now)

\* a pending timeout of showTypingFromOther runs its callback
HideTimeout(t) ==
    /\ tab[t].open
    /\ tab[t].hideTimers > 0
    /\ Do(t, "hideTimeout", NoKey, NoName,
          Result(hideTimeoutFires(tab[t]), store, pointer, "none", FALSE), now)

InitIndicator ==
    /\ store = [k \in Keys |-> IF k = 1 THEN Stringify(FriendsProfile(sA, 2, sB))
                               ELSE IF k = 2 THEN Stringify(FriendsProfile(sB, 1, sA))
                               ELSE AbsentItem]
    /\ pointer = 1
    /\ tab = [t \in Tabs |-> IF t = 1 THEN loadUserDataApp(store, pointer).app ELSE ClosedApp]
    /\ now = FirstTime
    /\ limits = [tabs |-> 1, written |-> MaxWritten, failures |-> 0]
    /\ written = 0
    /\ failures = 0
    /\ last = NoOp

NextIndicator ==
    \/ \E t \in Tabs : StartChatWithFriend(t)
    \/ \E t \in Tabs : OpenChat(t)
    \/ \E t \in Tabs : BackToChats(t)
    \/ \E t \in Tabs : Logout(t)
    \/ \E t \in Tabs : HandleTyping(t)
    \/ \E t \in Tabs : TypingTimeout(t)
    \/ \E t \in Tabs : SimulatedTyping(t)
    \/ \E t \in Tabs : HideTimeout(t)

SpecIndicator == InitIndicator /\ [][NextIndicator]_vars

-----------------------------------------------------------------------------
(* ChatManager on its own: its methods called in any order, on a record that
   any earlier version of the program, or anything else, has stored *)

\* chats a stored record can hold: the Favorites chat, a channel with a message,
\* a chat without id, a chat without name, and a chat whose name is ''
StoredChats ==
    { initializeChats[1],
      [NewChat(<<"T">>, <<"d">>, FirstTime) EXCEPT
          !.messages = << NewMessage(sA, sHi, "text", Null, Null) >>],
      [name |-> <<"T">>, messages |-> <<>>],
      [id |-> FirstTime, messages |-> <<>>],
      NewChat(<<Space>>, <<>>, FirstTime) }

StoredChatLists ==
    UNION { [1..n -> StoredChats] : n \in 0..MaxStored }

\* the records under a key: written by this version (all five properties), by the
\* version without friend requests (three properties), or without chats
StoredRecords ==
    { [username |-> sA, chats |-> cs, friends |-> << FriendRef(2, sB) >>,
       friendRequests |-> << RequestRef(2, sB) >>,
       sentFriendRequests |-> << SentEntry(2, sA) >>] : cs \in StoredChatLists }
    \cup { [username |-> sA, chats |-> cs, friends |-> << FriendRef(2, sB) >>] :
             cs \in StoredChatLists }
    \cup { [username |-> sA] }

StoredItems == {AbsentItem, CorruptItem} \cup { Stringify(d) : d \in StoredRecords }

\* a ChatManager method ran in tab t
CMDo(t, op, key, name, app, st, ret, counted, clock) ==
    /\ tab[t].open
    /\ counted => written < limits.written
    /\ tab' = [tab EXCEPT ![t] = app]
    /\ store' = st
    /\ now' = clock
    /\ failures' = IF ret = "threw" THEN failures + 1 ELSE failures
    /\ written' = IF counted THEN written + 1 ELSE written
    /\ last' = [op |-> op, t |-> t, key |-> key, name |-> name, ret |-> ret]
    /\ UNCHANGED <<pointer, limits>>

CMLoadChats(t) ==
    \E userKey \in Keys :
       CMDo(t, "loadChats", userKey, NoName, loadChats(tab[t], store, userKey), store,
            "none", FALSE, now)

CMSaveChats(t) ==
    \E userKey \in Keys, ok \in OkSet :
       CMDo(t, "saveChats", userKey, sA, tab[t], saveChats(tab[t], store, userKey, sA, ok),
            IF ok THEN "ok" ELSE "threw", FALSE, now)

CMCreateChat(t) ==
    \E name \in ChatNameInputs, description \in DescInputs, c \in Clock :
       CMDo(t, "createChat", NoKey, name, createChat(tab[t], name, description, c), store,
            "none", TRUE, c)

CMAddFriend(t) ==
    \E friendKey \in Keys, friendUsername \in {sA, sB} :
       CMDo(t, "addFriend", friendKey, friendUsername,
            [tab[t] EXCEPT !.friends = addFriend(@, friendKey, friendUsername)], store,
            IF AddFriendRet(tab[t].friends, friendKey) THEN "true" ELSE "false", TRUE, now)

InitCM ==
    /\ \E item \in StoredItems : store = [k \in Keys |-> IF k = 1 THEN item ELSE AbsentItem]
    /\ pointer = NoKey
    /\ tab = [t \in Tabs |-> IF t = 1 THEN NewApp ELSE ClosedApp]
    /\ now = FirstTime
    /\ limits = [tabs |-> 1, written |-> MaxWritten, failures |-> MaxFailures]
    /\ written = 0
    /\ failures = 0
    /\ last = NoOp

NextCM ==
    \/ \E t \in Tabs : CMLoadChats(t)
    \/ \E t \in Tabs : CMSaveChats(t)
    \/ \E t \in Tabs : CMCreateChat(t)
    \/ \E t \in Tabs : CMAddFriend(t)

SpecCM == InitCM /\ [][NextCM]_vars

-----------------------------------------------------------------------------
(* addMessage called over and over on one chat *)

\* the text of the n-th message
TextOf(n) == << ToString(n) >>

MessageOf(n) == NewMessage(sA, TextOf(n), "text", Null, Null)

\* the n-th addMessage on the Favorites chat; `written` counts the calls made on
\* the chat since it was created
MsgAddMessage(t) ==
    /\ tab[t].open
    /\ written < limits.written
    /\ tab' = [tab EXCEPT ![t].chats[1] = addMessage(@, MessageOf(written + 1))]
    /\ written' = written + 1
    /\ last' = [op |-> "addMessage", t |-> t, key |-> NoKey, name |-> TextOf(written + 1),
                ret |-> "none"]
    /\ UNCHANGED <<store, pointer, now, limits, failures>>

\* the Favorites chat after the first n messages were added to it, n under the cap
ChatAfter(n) ==
    [initializeChats[1] EXCEPT !.messages = SubSeq([i \in 1..n |-> MessageOf(i)], 1, n)]

\* The chat is new, or an earlier session has added MESSAGE_CAP - 2 messages to it.
InitMsg ==
    /\ store = [k \in Keys |-> AbsentItem]
    /\ pointer = NoKey
    /\ written \in {0, MESSAGE_CAP - 2}
    /\ tab = [t \in Tabs |->
                IF t = 1
                THEN [NewApp EXCEPT !.chats = << ChatAfter(written) >>]
                ELSE ClosedApp]
    /\ now = FirstTime
    /\ limits = [tabs |-> 1, written |-> MaxSends, failures |-> 0]
    /\ failures = 0
    /\ last = NoOp

NextMsg == \E t \in Tabs : MsgAddMessage(t)

SpecMsg == InitMsg /\ [][NextMsg]_vars

-----------------------------------------------------------------------------
(* searchUsers over what localStorage can hold *)

\* user names of stored records
SearchNames == { <<"a">>, <<"A", "b">>, <<"b", "a">> }

\* what is stored under a key: nothing, an item that does not parse, a record
\* without username, a record with an empty username, or a profile
SearchItems ==
    {AbsentItem, CorruptItem, Stringify([chats |-> initializeChats]),
     Stringify(FreshProfile(<<>>))}
    \cup { Stringify(FreshProfile(n)) : n \in SearchNames }

\* the search terms: the strings of letters up to MaxTermLen
SearchTerms == UNION { [1..n -> {"a", "A", "b", "c"}] : n \in 0..MaxTermLen }

\* ChatManager.searchUsers(searchTerm, currentUserKey), its result shown
CMSearchUsers(t) ==
    \E searchTerm \in SearchTerms, currentUserKey \in Keys \cup {NoKey} :
       CMDo(t, "searchUsers", currentUserKey, searchTerm,
            [tab[t] EXCEPT !.searchResults = searchUsers(store, searchTerm, currentUserKey)],
            store, "none", FALSE, now)

InitSearch ==
    /\ store \in [Keys -> SearchItems]
    /\ pointer = NoKey
    /\ tab = [t \in Tabs |-> IF t = 1 THEN NewApp ELSE ClosedApp]
    /\ now = FirstTime
    /\ limits = [tabs |-> 1, written |-> 0, failures |-> 0]
    /\ written = 0
    /\ failures = 0
    /\ last = NoOp

NextSearch == \E t \in Tabs : CMSearchUsers(t)

SpecSearch == InitSearch /\ [][NextSearch]_vars

-----------------------------------------------------------------------------
(* Properties *)

\* the positions of the chats of cs that have an id and a name
KeptPositions(cs) ==
    { i \in 1..Len(cs) : /\ "id" \in DOMAIN cs[i] /\ cs[i].id # 0
                         /\ "name" \in DOMAIN cs[i] /\ cs[i].name # <<>> }

\* the j-th of these positions, in increasing order
KeptPosition(cs, j) ==
    CHOOSE i \in KeptPositions(cs) : Cardinality({ h \in KeptPositions(cs) : h <= i }) = j

\* chats is cs without the chats that lack an id or a name, in the order of cs
IsKeptOf(chats, cs) ==
    /\ Len(chats) = Cardinality(KeptPositions(cs))
    /\ \A j \in 1..Len(chats) : chats[j] = cs[KeptPosition(cs, j)]

\* chats is the single Favorites chat: id 1, no messages
IsFavoritesOnly(chats) ==
    /\ Len(chats) = 1
    /\ chats[1].id = 1
    /\ chats[1].name = Favorites
    /\ chats[1].messages = <<>>

\* the chats stored under an item: none when the item is absent, does not parse,
\* or has no chats
ChatsOfItem(item) ==
    IF item.kind = "json" /\ "chats" \in DOMAIN item.data THEN item.data.chats ELSE <<>>

\* C1: right after loadChats(userKey), whatever is stored under the key, the chat
\* list in memory is not empty: it is the stored chats that have an id and a
\* name, in stored order, and the single Favorites chat (id 1, no messages) when
\* there are none.
C1_LoadChatsNeverEmpty ==
    last.op = "loadChats" =>
        LET chats == tab[last.t].chats
            cs == ChatsOfItem(store[last.key])
        IN /\ chats # <<>>
           /\ IF KeptPositions(cs) = {}
              THEN IsFavoritesOnly(chats)
              ELSE IsKeptOf(chats, cs)

\* loadChats has read a record that mixes valid and invalid chats, and dropped some
C1_Witness_Mixed ==
    /\ last.op = "loadChats"
    /\ KeptPositions(ChatsOfItem(store[last.key])) # {}
    /\ Len(tab[last.t].chats) < Len(ChatsOfItem(store[last.key]))

\* the entries of s whose key is k
EntriesOf(s, k) == { i \in 1..Len(s) : s[i].key = k }

\* s grew by one entry, at its end, and the entry has key k
GrewBy(before, after, k) ==
    /\ Len(after) = Len(before) + 1
    /\ SubSeq(after, 1, Len(before)) = before
    /\ after[Len(after)].key = k

\* the array under property f of a stored record, [] when it has none
ListOf(item, f) == IF f \in DOMAIN item.data THEN item.data[f] ELSE <<>>

\* C2: right after the signed-in user accepted the request of a requester whose
\* profile is stored, the save and the reload done, the requester is among the
\* user's friends and not among the user's requests, and the requester's stored
\* record has the user among its friends and not among its sent requests.
C2_AcceptLinksBoth ==
    (/\ last.op = "acceptFriendRequest" /\ last.ret = "ok"
     /\ store[last.key].kind = "json") =>
        LET self == tab[last.t].currentUserKey
        IN /\ EntriesOf(tab[last.t].friends, last.key) # {}
           /\ EntriesOf(tab[last.t].friendRequests, last.key) = {}
           /\ EntriesOf(ListOf(store[last.key], "friends"), self) # {}
           /\ EntriesOf(ListOf(store[last.key], "sentFriendRequests"), self) = {}

\* a request was accepted, and the two stored records name each other as friends
C2_Witness_Accepted ==
    /\ last.op = "acceptFriendRequest" /\ last.ret = "ok"
    /\ store[last.key].kind = "json"
    /\ store[tab[last.t].currentUserKey].kind = "json"
    /\ EntriesOf(ListOf(store[tab[last.t].currentUserKey], "friends"), last.key) # {}
    /\ EntriesOf(ListOf(store[last.key], "friends"), tab[last.t].currentUserKey) # {}

\* C3: a sendFriendRequest to a key whose request is still in sentFriendRequests
\* returns false and changes nothing: not the tab's objects, where the key keeps
\* its one entry, and not localStorage, where the target's record is not written.
C3_SecondRequestRefused ==
    [][(/\ last'.op = "sendFriendRequestByName"
        /\ last'.key # tab[last'.t].currentUserKey
        /\ EntriesOf(tab[last'.t].sentFriendRequests, last'.key) # {}) =>
          /\ last'.ret = "false"
          /\ tab' = tab
          /\ store' = store
          /\ failures' = failures
          /\ Cardinality(EntriesOf(tab'[last'.t].sentFriendRequests, last'.key)) = 1
    ]_vars

\* a second request to the same key was refused
C3_Witness_Refused ==
    /\ last.op = "sendFriendRequestByName" /\ last.ret = "false"
    /\ Cardinality(EntriesOf(tab[last.t].sentFriendRequests, last.key)) = 1
    /\ store[last.key].kind = "json"
    /\ Cardinality(EntriesOf(ListOf(store[last.key], "friendRequests"),
                             tab[last.t].currentUserKey)) = 1

\* C4: a sendFriendRequest that is not a repeat, to a target whose profile is
\* stored, with no write failing, returns true, adds one entry with the target's
\* key to the sender's sentFriendRequests and one entry with the sender's key to
\* the target's stored friendRequests; the other properties of the target's
\* record are as they were.
C4_RequestReachesTarget ==
    [][(/\ last'.op = "sendFriendRequestByName"
        /\ last'.key # tab[last'.t].currentUserKey
        /\ EntriesOf(tab[last'.t].sentFriendRequests, last'.key) = {}
        /\ store[last'.key].kind = "json"
        /\ failures' = failures) =>
          LET self == tab[last'.t].currentUserKey
              old == store[last'.key]
              new == store'[last'.key]
          IN /\ last'.ret = "true"
             /\ GrewBy(tab[last'.t].sentFriendRequests,
                       tab'[last'.t].sentFriendRequests, last'.key)
             /\ new.kind = "json"
             /\ GrewBy(ListOf(old, "friendRequests"), ListOf(new, "friendRequests"), self)
             /\ DOMAIN new.data = DOMAIN old.data \cup {"friendRequests"}
             /\ \A f \in DOMAIN old.data \ {"friendRequests"} : new.data[f] = old.data[f]
    ]_vars

\* a request went out: the sender holds an entry for the target, and the target's
\* stored record an entry for the sender
C4_Witness_Sent ==
    /\ last.op = "sendFriendRequestByName" /\ last.ret = "true"
    /\ store[last.key].kind = "json"
    /\ EntriesOf(ListOf(store[last.key], "friendRequests"), tab[last.t].currentUserKey) # {}
    /\ EntriesOf(tab[last.t].sentFriendRequests, last.key) # {}

\* C5: addFriend is idempotent by key.  A call with a key that is not in the list
\* returns true and adds one entry, with the username given; a call with a key
\* that is in the list returns false and leaves the list as it is, whatever the
\* username given; either way the list then has exactly one entry for the key.
C5_AddFriendIdempotent ==
    [][last'.op = "addFriend" =>
          LET before == tab[last'.t].friends
              after == tab'[last'.t].friends
              isNew == \A i \in 1..Len(before) : before[i].key # last'.key
          IN /\ last'.ret = (IF isNew THEN "true" ELSE "false")
             /\ isNew => /\ Len(after) = Len(before) + 1
                         /\ SubSeq(after, 1, Len(before)) = before
                         /\ after[Len(after)].key = last'.key
                         /\ after[Len(after)].username = last'.name
             /\ ~isNew => after = before
             /\ Cardinality({ i \in 1..Len(after) : after[i].key = last'.key }) = 1
    ]_vars

\* a later addFriend with the key of a friend and another username was refused,
\* and the entry has the first username
C5_Witness_SecondCall ==
    /\ last.op = "addFriend"
    /\ last.ret = "false"
    /\ \E i \in 1..Len(tab[last.t].friends) :
          /\ tab[last.t].friends[i].key = last.key
          /\ tab[last.t].friends[i].username # last.name

Min(a, b) == IF a <= b THEN a ELSE b

\* C6: after n addMessage calls on one chat, its list has min(n, 1000) messages,
\* the most recently appended ones, in the order they were appended.
C6_LastThousandKept ==
    \A t \in Tabs :
       (tab[t].open /\ Len(tab[t].chats) > 0) =>
           LET n == written
               kept == Min(n, 1000)
               messages == tab[t].chats[1].messages
           IN /\ Len(messages) = kept
              /\ \A i \in 1..kept : messages[i] = MessageOf(n - kept + i)

\* the 1001st message is in, and the first one appended is the one that went
C6_Witness_Overflow ==
    /\ written = 1001
    /\ Len(tab[1].chats[1].messages) = 1000
    /\ tab[1].chats[1].messages[1] = MessageOf(2)
    /\ tab[1].chats[1].messages[1000] = MessageOf(1001)

\* C7: saveChats(key, username) and then loadChats(key) leave friends,
\* friendRequests and sentFriendRequests as they were before the save, and the
\* chats too, but for the chats that lack an id or a name, which are dropped,
\* the Favorites chat taking their place when none remain.
C7_RoundTrip ==
    [][(/\ last.op = "saveChats" /\ last.ret = "ok"
        /\ last'.op = "loadChats" /\ last'.key = last.key /\ last'.t = last.t) =>
          LET before == tab[last.t]
              after == tab'[last.t]
          IN /\ after.friends = before.friends
             /\ after.friendRequests = before.friendRequests
             /\ after.sentFriendRequests = before.sentFriendRequests
             /\ IF KeptPositions(before.chats) = {}
                THEN IsFavoritesOnly(after.chats)
                ELSE IsKeptOf(after.chats, before.chats)
    ]_vars

\* a round trip of a working set with requests in both directions that dropped a
\* chat without a name
C7_Witness_Dropped ==
    /\ last.op = "loadChats"
    /\ last.key = 2
    /\ store[2].kind = "json"
    /\ store[2].data.sentFriendRequests # <<>>
    /\ store[2].data.friendRequests # <<>>
    /\ tab[last.t].sentFriendRequests = store[2].data.sentFriendRequests
    /\ Len(tab[last.t].chats) < Len(store[2].data.chats)

\* the entries of s whose key is not k, in the order of s
IsWithout(after, before, k) ==
    LET others == { i \in 1..Len(before) : before[i].key # k }
    IN /\ Len(after) = Cardinality(others)
       /\ \A j \in 1..Len(after) :
             after[j] = before[CHOOSE i \in others :
                                  Cardinality({ h \in others : h <= i }) = j]

\* C8: rejectFriendRequest(requesterKey) takes the requester out of the user's
\* friendRequests and does nothing else: the user's friends, chats and
\* sentFriendRequests are as before, and so is the requester's stored record.
C8_RejectIsLocal ==
    [][last'.op = "rejectFriendRequest" =>
          LET before == tab[last'.t]
              after == tab'[last'.t]
          IN /\ IsWithout(after.friendRequests, before.friendRequests, last'.key)
             /\ after.friends = before.friends
             /\ after.chats = before.chats
             /\ after.sentFriendRequests = before.sentFriendRequests
             /\ store'[last'.key] = store[last'.key]
    ]_vars

\* a request was rejected, and the requester's stored record still lists it as sent
C8_Witness_Rejected ==
    /\ last.op = "rejectFriendRequest" /\ last.ret = "ok"
    /\ EntriesOf(tab[last.t].friendRequests, last.key) = {}
    /\ store[last.key].kind = "json"
    /\ EntriesOf(ListOf(store[last.key], "sentFriendRequests"),
                 tab[last.t].currentUserKey) # {}

\* the chats, their messages, the friends and the requests a tab holds; the open
\* chat is one of the chats, or an object of its own
WorkingSet(a) ==
    <<a.chats, a.currentChat, a.friends, a.friendRequests, a.sentFriendRequests>>

\* C9: when a write to localStorage fails while a message is sent, a chat is
\* created or a friend request is sent, the tab's working set is what it was
\* before the operation.
C9_FailedWriteLeavesMemory ==
    [][(/\ last'.op \in {"sendMessage", "createChat", "sendFriendRequestByName"}
        /\ failures' > failures) =>
          WorkingSet(tab'[last'.t]) = WorkingSet(tab[last'.t])
    ]_vars

\* a message was pushed to the open chat, the write failed, and the message is
\* in memory and not in localStorage
C9_Witness_MessageKept ==
    /\ last.op = "sendMessage" /\ last.ret = "caught"
    /\ tab[last.t].currentChat.kind = "live"
    /\ Len(Deref(tab[last.t], tab[last.t].currentChat).messages) = 1
    /\ store[last.key].kind = "json"
    /\ \A i \in 1..Len(store[last.key].data.chats) :
          store[last.key].data.chats[i].messages = <<>>

\* C10: a nickname, a chat name or a message that is empty once trimmed, and a
\* friend action (direct add, add by key, request) on the user's own key, change
\* nothing: not the tab's objects, not the pointer, not localStorage.
C10_RejectedBeforeMutation ==
    [][(\/ /\ last'.op \in {"saveNickname", "createChat", "sendMessage"}
           /\ last'.name = <<>>
        \/ /\ last'.op \in {"addFriend", "addFriendByKey", "sendFriendRequestByName"}
           /\ last'.key = tab[last'.t].currentUserKey) =>
          /\ tab' = tab
          /\ store' = store
          /\ pointer' = pointer
    ]_vars

\* a request by name was resolved to the user's own key (another user has the
\* same name) and refused
C10_Witness_OwnKey ==
    /\ last.op = "sendFriendRequestByName"
    /\ last.ret = "rejected"
    /\ last.key = tab[last.t].currentUserKey
    /\ tab[last.t].sentFriendRequests = <<>>

\* C11: restoreChats with a key under which no record is stored, or a record that
\* does not parse, reports not-found and changes nothing: not the pointer, not
\* the tab's user name, key and working set, not localStorage.
C11_RestoreUnknownKey ==
    [][(/\ last'.op = "restoreChats"
        /\ last'.key # NoKey
        /\ store[last'.key].kind # "json") =>
          /\ last'.ret = "notfound"
          /\ tab' = tab
          /\ pointer' = pointer
          /\ store' = store
    ]_vars

\* a signed-in user tried to restore the key of a record that does not parse
C11_Witness_Corrupt ==
    /\ last.op = "restoreChats" /\ last.ret = "notfound"
    /\ store[last.key] = CorruptItem
    /\ tab[last.t].currentUserKey # NoKey
    /\ pointer = tab[last.t].currentUserKey

\* C12: logout removes the pointer and leaves every stored record as it is, the
\* record of the user who logs out too; and no step of the application removes
\* a stored profile: a key under which a record is stored and parses keeps one.
C12_ProfilesAreKept ==
    [][/\ last'.op = "logout" => (store' = store /\ pointer' = NoKey)
       /\ \A k \in Keys : store[k].kind = "json" => store'[k].kind = "json"
    ]_vars

\* a user with a chat of their own logged out, and the record is still stored
C12_Witness_LoggedOut ==
    /\ last.op = "logout"
    /\ pointer = NoKey
    /\ store[last.key].kind = "json"
    /\ Len(store[last.key].data.chats) > 1

IsTrimOf(r, s) ==
    /\ \E i \in 0..Len(s), j \in 0..Len(s) :
          /\ i + Len(r) + j = Len(s)
          /\ \A h \in 1..Len(s) :
                s[h] = (IF h <= i \/ h > i + Len(r) THEN Space ELSE r[h - i])
    /\ r # <<>> => (r[1] # Space /\ r[Len(r)] # Space)

\* C14: createChat(name, description) with a name that is not empty once trimmed
\* appends one chat at the end of the chat list, with the trimmed name and no
\* messages; the chats that were there are as they were, in their order.
C14_CreateChatAppends ==
    [][(last'.op = "createChat" /\ ~IsTrimOf(<<>>, last'.name)) =>
          LET before == tab[last'.t].chats
              after == tab'[last'.t].chats
          IN /\ Len(after) = Len(before) + 1
             /\ SubSeq(after, 1, Len(before)) = before
             /\ IsTrimOf(after[Len(after)].name, last'.name)
             /\ after[Len(after)].messages = <<>>
    ]_vars

\* a chat was created from a name typed with spaces around it, behind other chats
C14_Witness_Created ==
    /\ last.op = "createChat"
    /\ last.name = <<Space, "T", Space>>
    /\ Len(tab[last.t].chats) > 1
    /\ tab[last.t].chats[Len(tab[last.t].chats)].name = <<"T">>

SameLetter(x, y) == x = y \/ {x, y} = {"a", "A"} \/ {x, y} = {"b", "B"}

\* term occurs in name at some position, the case of the letters ignored
ContainsIgnoringCase(name, term) ==
    \E i \in 0..Len(name) :
       /\ i + Len(term) <= Len(name)
       /\ \A j \in 1..Len(term) : SameLetter(name[i + j], term[j])

\* the keys of the stored profiles that have a username
ProfilesWithName ==
    { k \in Keys : /\ store[k].kind = "json"
                   /\ "username" \in DOMAIN store[k].data
                   /\ store[k].data.username # <<>> }

\* C16: searchUsers(term, excludeKey) returns the stored profiles that have a
\* username, a key other than excludeKey and a username that contains term, the
\* case of the letters ignored, each with its key and username, and no others.
C16_SearchFindsMatches ==
    last.op = "searchUsers" =>
        LET found == tab[last.t].searchResults
        IN /\ { u.key : u \in found } =
                 { k \in ProfilesWithName :
                     /\ k # last.key
                     /\ ContainsIgnoringCase(store[k].data.username, last.name) }
           /\ \A u \in found : u.username = store[u.key].data.username
           /\ Cardinality(found) = Cardinality({ u.key : u \in found })

\* a search in another case than the stored name found one profile and left out
\* the profile of the searcher, which matches too
C16_Witness_OtherCase ==
    /\ last.op = "searchUsers"
    /\ last.name = <<"a", "b">>
    /\ Cardinality(tab[last.t].searchResults) = 1
    /\ last.key \in ProfilesWithName
    /\ store[last.key].data.username = <<"A", "b">>

\* C17: right after a sendFriendRequest that added an entry to the sender's
\* sentFriendRequests, the entry has the target's key and the username of the
\* target's stored profile.
C17_SentEntryNamesTarget ==
    (/\ last.op = "sendFriendRequestByName" /\ last.ret = "true"
     /\ store[last.key].kind = "json") =>
        LET sent == tab[last.t].sentFriendRequests
        IN /\ sent # <<>>
           /\ sent[Len(sent)].key = last.key
           /\ sent[Len(sent)].username = store[last.key].data.username

\* a request went out to a user of another name, and the entry the sender keeps
\* for it carries the target's key with the sender's own username
C17_Witness_SenderName ==
    /\ last.op = "sendFriendRequestByName" /\ last.ret = "true"
    /\ store[last.key].kind = "json"
    /\ store[last.key].data.username # tab[last.t].currentUser
    /\ LET sent == tab[last.t].sentFriendRequests
       IN /\ sent[Len(sent)].key = last.key
          /\ sent[Len(sent)].username = tab[last.t].currentUser

\* no two entries of s have the same key
UniqueByKey(s) == \A i, j \in 1..Len(s) : s[i].key = s[j].key => i = j

\* C18: in every reachable state the friendRequests of every profile, in memory
\* and in its stored record, hold at most one entry per requester key.
C18_RequestsUniqueByKey ==
    /\ \A t \in Tabs : UniqueByKey(tab[t].friendRequests)
    /\ \A k \in Keys : store[k].kind = "json" => UniqueByKey(ListOf(store[k], "friendRequests"))

\* a stored record holds two requests of one requester
C18_Witness_TwiceStored ==
    \E k \in Keys :
       /\ store[k].kind = "json"
       /\ \E i, j \in 1..Len(ListOf(store[k], "friendRequests")) :
             /\ i # j
             /\ store[k].data.friendRequests[i].key = store[k].data.friendRequests[j].key

\* the positions in chats of the private chats that have k among their participants
PrivateChatsWith(chats, k) ==
    { i \in 1..Len(chats) :
        /\ "type" \in DOMAIN chats[i] /\ chats[i].type = "private"
        /\ "participants" \in DOMAIN chats[i]
        /\ \E j \in 1..Len(chats[i].participants) : chats[i].participants[j] = k }

\* the keys of the entries of a list of friends
KeysOf(friends) == { friends[i].key : i \in 1..Len(friends) }

\* C19: private chats being created by startChatWithFriend only, in every
\* reachable state the chat list of a profile, in memory and stored, holds at
\* most one private chat with a given friend key among its participants; and
\* right after startChatWithFriend found a chat with the friend, that chat is the
\* only one and is the chat that is open.
C19_OnePrivateChatPerFriend ==
    /\ \A t \in Tabs : \A f \in KeysOf(tab[t].friends) :
          Cardinality(PrivateChatsWith(tab[t].chats, f)) <= 1
    /\ \A k \in Keys : store[k].kind = "json" =>
          \A f \in KeysOf(ListOf(store[k], "friends")) :
             Cardinality(PrivateChatsWith(ListOf(store[k], "chats"), f)) <= 1
    /\ (last.op = "startChatWithFriend" /\ last.ret = "found") =>
          /\ Cardinality(PrivateChatsWith(tab[last.t].chats, last.key)) = 1
          /\ tab[last.t].currentChat.kind = "live"
          /\ tab[last.t].currentChat.idx \in PrivateChatsWith(tab[last.t].chats, last.key)

\* the chat with a friend was started a second time: the chat found is open, and
\* it is stored
C19_Witness_StartedAgain ==
    /\ last.op = "startChatWithFriend" /\ last.ret = "found"
    /\ tab[last.t].currentScreen = "chatScreen"
    /\ store[tab[last.t].currentUserKey].kind = "json"
    /\ PrivateChatsWith(ListOf(store[tab[last.t].currentUserKey], "chats"), last.key) # {}

\* C20: at most one timeout of handleTyping is pending, and it is the one
\* this.typingTimeout holds; a keystroke leaves exactly one pending timeout, a
\* new one, whatever was pending before; and whenever the user is typing, the
\* typing state later ends.
C20_SingleTypingTimer ==
    /\ [](\A t \in Tabs : /\ Cardinality(tab[t].timers) <= 1
                          /\ tab[t].timers \subseteq {tab[t].typingTimeout})
    /\ [][last'.op = "handleTyping" =>
             /\ Cardinality(tab'[last'.t].timers) = 1
             /\ tab'[last'.t].timers \cap tab[last'.t].timers = {}
             /\ tab'[last'.t].isTyping]_vars
    /\ \A t \in Tabs : tab[t].isTyping ~> ~tab[t].isTyping

\* the callback of the timeout armed by the last of several keystrokes ended the
\* typing state: nothing is pending and this.typingTimeout is null
C20_Witness_IdleFired ==
    /\ last.op = "typingTimeout"
    /\ last.key > 1
    /\ ~tab[last.t].isTyping
    /\ tab[last.t].timers = {}
    /\ tab[last.t].typingTimeout = NoTimer

\* the chat c is a private chat, and name is the stored user name of a
\* participant of c other than the user self
IsNameOfOtherParticipant(c, self, name) ==
    /\ "type" \in DOMAIN c /\ c.type = "private"
    /\ \E j \in 1..Len(c.participants) :
          /\ c.participants[j] # self
          /\ store[c.participants[j]].kind = "json"
          /\ store[c.participants[j]].data.username = name

\* C21: right after a timeout of simulateTypingIndicator showed the indicator, a
\* chat is open, it is a private chat, and the name shown is the name of the other
\* participant of that chat.
C21_IndicatorOfOpenChat ==
    (last.op = "simulatedTyping" /\ last.ret = "shown") =>
        /\ tab[last.t].currentChat # NoRef
        /\ tab[last.t].indicator.display = "block"
        /\ IsNameOfOtherParticipant(Deref(tab[last.t], tab[last.t].currentChat),
                                    tab[last.t].currentUserKey,
                                    tab[last.t].indicator.username)

\* the indicator shows the friend's name while the chat that is open is Favorites
C21_Witness_OtherChatOpen ==
    /\ last.op = "simulatedTyping" /\ last.ret = "shown"
    /\ tab[last.t].indicator = [display |-> "block", username |-> sB]
    /\ tab[last.t].currentScreen = "chatScreen"
    /\ tab[last.t].currentChat # NoRef
    /\ Deref(tab[last.t], tab[last.t].currentChat).id = FAVORITES_ID

\* the keys of the entries of a list, in their order
KeySeq(s) == [i \in 1..Len(s) |-> s[i].key]

\* C22: the write that ends a call of sendFriendRequest puts, as the target's
\* stored friendRequests, the requests the call read with the sender's own at
\* their end, whatever the record holds by then; so of two calls that overlap,
\* both returning true, the one that writes last removes the sender of the other.
C22_SendOverwritesTarget ==
    [][(/\ last'.op = "sendFriendRequestSave"
        /\ tab[last'.t].call # NoCall
        /\ tab[last'.t].call.targetUserData # NullObj) =>
          /\ last'.ret = "true"
          /\ KeySeq(ListOf(store'[last'.key], "friendRequests")) =
                Append(KeySeq(Or(tab[last'.t].call.targetUserData, "friendRequests", <<>>)),
                       tab[last'.t].currentUserKey)
    ]_vars

\* both tabs have sent a request to the third user and are in no call, each
\* sender's stored record has its sent entry, and the third user's stored
\* requests hold one of the two senders only
C22_Witness_OneSenderLost ==
    \E target \in RaceKeys :
       /\ \A t \in 1..2 :
             /\ tab[t].call = NoCall
             /\ tab[t].currentUserKey # target
             /\ EntriesOf(tab[t].sentFriendRequests, target) # {}
             /\ EntriesOf(ListOf(store[tab[t].currentUserKey], "sentFriendRequests"), target) # {}
       /\ tab[1].currentUserKey # tab[2].currentUserKey
       /\ Cardinality({ t \in 1..2 :
             EntriesOf(ListOf(store[target], "friendRequests"), tab[t].currentUserKey) # {} }) = 1

\* the stored record of r has a among its friends and not among its sent requests
LinkedStored(r, a) ==
    /\ store[r].kind = "json"
    /\ EntriesOf(ListOf(store[r], "friends"), a) # {}
    /\ EntriesOf(ListOf(store[r], "sentFriendRequests"), a) = {}

\* C23: once acceptFriendRequest has completed, the accepter stays among the
\* requester's stored friends and out of the requester's stored sent requests:
\* no step takes a stored link away.  (A stored friend comes from an accept
\* only, under SpecSync.)
C23_AcceptedStaysLinked ==
    [][\A r \in Keys : \A a \in Keys :
          (/\ LinkedStored(r, a)
           /\ store[a].kind = "json"
           /\ EntriesOf(ListOf(store[a], "friends"), r) # {})
          => LinkedStored(r, a)'
    ]_vars

\* after an accept, the save of the requester's other tab has put the
\* requester's stored record back: no friend, and the sent request again
C23_Witness_PutBack ==
    /\ last.op \in {"autoSave", "unload"}
    /\ \E r \in Keys : \E a \in Keys :
          /\ r # a
          /\ tab[last.t].currentUserKey = r
          /\ store[r].kind = "json" /\ store[a].kind = "json"
          /\ EntriesOf(ListOf(store[a], "friends"), r) # {}
          /\ EntriesOf(ListOf(store[r], "friends"), a) = {}
          /\ EntriesOf(ListOf(store[r], "sentFriendRequests"), a) # {}

\* the chats of the list that have the id of chat c and text as the text of
\* their last message
ChatsEndingWith(chats, c, text) ==
    { i \in 1..Len(chats) :
        /\ "id" \in DOMAIN chats[i] /\ chats[i].id = c.id
        /\ "messages" \in DOMAIN chats[i]
        /\ chats[i].messages # <<>>
        /\ chats[i].messages[Len(chats[i].messages)].text = text }

\* C24: right after sendMessage accepted a message and returned without error,
\* the message is the last message of the open chat in the stored record of the
\* signed-in user.
C24_SentMessageStored ==
    (/\ last.op = "sendMessage" /\ last.ret = "ok"
     /\ tab[last.t].currentUserKey # NoKey) =>
        /\ store[tab[last.t].currentUserKey].kind = "json"
        /\ ChatsEndingWith(ListOf(store[tab[last.t].currentUserKey], "chats"),
                           Deref(tab[last.t], tab[last.t].currentChat), last.name) # {}

\* a message was sent without error into a chat object that the reload left
\* behind: the open chat has it, chatManager.chats and the stored record have no
\* message at all
C24_Witness_StaleChat ==
    /\ last.op = "sendMessage" /\ last.ret = "ok"
    /\ tab[last.t].currentChat.kind = "stale"
    /\ tab[last.t].currentChat.chat.messages # <<>>
    /\ \A i \in 1..Len(tab[last.t].chats) : tab[last.t].chats[i].messages = <<>>
    /\ store[tab[last.t].currentUserKey].kind = "json"
    /\ \A i \in 1..Len(store[tab[last.t].currentUserKey].data.chats) :
          store[tab[last.t].currentUserKey].data.chats[i].messages = <<>>

\* C25: when a FileReader calls back, a chat is open, it is the chat that was
\* open when the file was selected, the file message becomes its last message,
\* and the author of the message is the user who was signed in at the selection.
C25_FileGoesToItsChat ==
    [][(/\ last'.op = "fileLoaded"
        /\ last'.key \in 1..Len(tab[last'.t].reads)
        /\ Len(tab'[last'.t].reads) < Len(tab[last'.t].reads)) =>
          LET rd == tab[last'.t].reads[last'.key]
              after == tab'[last'.t]
          IN /\ last'.ret = "ok"
             /\ after.currentChat # NoRef
             /\ Deref(after, after.currentChat).id = rd.selectedIn
             /\ Deref(after, after.currentChat).messages # <<>>
             /\ LET chat == Deref(after, after.currentChat)
                    m == chat.messages[Len(chat.messages)]
                IN /\ m.fileName = rd.fileName
                   /\ m.author = rd.selectedBy
    ]_vars

\* the FileReader called back after the logout: no chat is open, the callback
\* ended with a TypeError and no message was stored
C25_Witness_NoChat ==
    /\ last.op = "fileLoaded" /\ last.ret = "typeerror"
    /\ tab[last.t].currentChat = NoRef
    /\ tab[last.t].currentUserKey = NoKey
    /\ tab[last.t].reads = <<>>
    /\ \A k \in Keys : store[k].kind = "json" =>
          \A i \in 1..Len(store[k].data.chats) : store[k].data.chats[i].messages = <<>>

\* the keys of the search results of user self that carry the user name n: the
\* stored profiles of that name but the user's own
ResultsNamed(self, n) ==
    { k \in ProfilesWithName : k # self /\ store[k].data.username = n }

\* C26: right after the request button of a search result was clicked, no write
\* failing, every profile U that a search shows under the name on the button is
\* the profile the request went to: the request was not refused as sent to
\* oneself, the key it was resolved to is U's, and when it was sent the sender
\* is in U's stored friendRequests and U's key in the sender's sentFriendRequests.
C26_RequestReachesResult ==
    (last.op = "sendFriendRequestByName" /\ last.ret # "threw") =>
        \A k \in ResultsNamed(tab[last.t].currentUserKey, last.name) :
           /\ last.ret # "rejected"
           /\ last.key = k
           /\ last.ret = "true" =>
                 /\ EntriesOf(ListOf(store[k], "friendRequests"),
                              tab[last.t].currentUserKey) # {}
                 /\ EntriesOf(tab[last.t].sentFriendRequests, k) # {}

\* the button of the one search result, a profile with the user's own name, was
\* clicked; the name was resolved to the user's own key and the request refused:
\* the profile shown has no request
C26_Witness_ResolvedToSelf ==
    /\ last.op = "sendFriendRequestByName" /\ last.ret = "rejected"
    /\ \E u \in searchUsers(store, last.name, tab[last.t].currentUserKey) :
          /\ u.username = tab[last.t].currentUser
          /\ u.key # last.key
          /\ ListOf(store[u.key], "friendRequests") = <<>>

\* the stored record of g holds a request of r
RequestStored(r, g) ==
    /\ store[g].kind = "json"
    /\ EntriesOf(ListOf(store[g], "friendRequests"), r) # {}

\* C27: a request of r in the stored record of g stays there in every step but
\* the accept or the reject of that request by g.
C27_RequestStaysStored ==
    [][\A r \in Keys : \A g \in Keys :
          (RequestStored(r, g) /\ ~RequestStored(r, g)') =>
             /\ last'.op \in {"acceptFriendRequest", "rejectFriendRequest"}
             /\ last'.key = r
             /\ tab[last'.t].currentUserKey = g
    ]_vars

\* the save of a tab of the target, whose memory holds no request, changed the
\* stored record: the sender's stored record has the sent request, the target
\* is not the sender's friend, and the target's stored record has no request
C27_Witness_RequestGone ==
    /\ last.op \in {"autoSave", "unload"}
    /\ \E r \in Keys : \E g \in Keys :
          /\ r # g
          /\ tab[last.t].currentUserKey = g
          /\ tab[last.t].friendRequests = <<>>
          /\ store[r].kind = "json" /\ store[g].kind = "json"
          /\ EntriesOf(ListOf(store[r], "sentFriendRequests"), g) # {}
          /\ ListOf(store[g], "friendRequests") = <<>>
          /\ ListOf(store[g], "friends") = <<>>

\* the request of requester to target is sent and turned down, as far as the
\* stored records tell: the requester's record has the sent request and the
\* target's record does not have the request
RejectedStored(requester, target) ==
    /\ store[requester].kind = "json" /\ store[target].kind = "json"
    /\ EntriesOf(ListOf(store[requester], "sentFriendRequests"), target) # {}
    /\ EntriesOf(ListOf(store[target], "friendRequests"), requester) = {}

\* the step is the accept, by target, of a request of requester
AcceptStep(requester, target) ==
    /\ last'.op = "acceptFriendRequest"
    /\ last'.key = requester
    /\ tab[last'.t].currentUserKey = target

\* from a state where the request of requester is turned down, the step keeps
\* it so unless it is the target's accept, and a request it sends from requester
\* to target is refused
StaysRejected(requester, target) ==
    RejectedStored(requester, target) =>
       /\ RejectedStored(requester, target)' \/ AcceptStep(requester, target)
       /\ (/\ last'.op = "sendFriendRequestByName" /\ last' # last
           /\ tab[last'.t].currentUserKey = requester
           /\ last'.key = target) => last'.ret = "false"

\* C28 as stated: once a request is turned down, it stays so, every request sent
\* again is refused and the target's requests never hold the requester again,
\* until the target accepts.
C28_RejectionIsPermanent ==
    [][\A requester \in Keys : \A target \in Keys \ {requester} :
          StaysRejected(requester, target)]_vars

\* a request is turned down in the stored records while an open tab of the
\* requester, loaded before the request was sent, does not know of it
C28_Witness_StaleRequester ==
    \E requester \in Keys : \E target \in Keys \ {requester} : \E t \in Tabs :
       /\ RejectedStored(requester, target)
       /\ last.op = "rejectFriendRequest" /\ last.key = requester
       /\ tab[t].open /\ tab[t].currentUserKey = requester
       /\ EntriesOf(tab[t].sentFriendRequests, target) = {}

\* the stored record of key b holds a as a friend and also a request from a
\* or a request sent to a
FriendWithPendingRequest(b, a) ==
    /\ store[b].kind = "json"
    /\ EntriesOf(ListOf(store[b], "friends"), a) # {}
    /\ \/ EntriesOf(ListOf(store[b], "friendRequests"), a) # {}
       \/ EntriesOf(ListOf(store[b], "sentFriendRequests"), a) # {}

\* C29: in every state, a stored record that holds a user as a friend holds no
\* request from that user and no request sent to that user.
C29_FriendsHaveNoPendingRequests ==
    \A b \in Keys : \A a \in Keys : ~FriendWithPendingRequest(b, a)

\* a user was added as a friend by key while a request from that user was stored
C29_Witness_AddedWhilePending ==
    /\ last.op = "addFriendByKey"
    /\ tab[last.t].currentUserKey \in Keys
    /\ FriendWithPendingRequest(tab[last.t].currentUserKey, last.key)
    /\ EntriesOf(ListOf(store[tab[last.t].currentUserKey], "friendRequests"), last.key) # {}

\* the stored record of the tab's key is the record the tab would write
StoredIsWorkingSet(a) ==
    /\ a.currentUserKey \in Keys
    /\ store[a.currentUserKey] = Stringify(UserData(a, a.currentUser))

\* the operations of the controller that C30 lists, the reload included
ControllerOps ==
    {"saveNickname", "createChat", "sendMessage", "startChatWithFriend", "addFriend",
     "addFriendByKey", "sendFriendRequestByName", "acceptFriendRequest",
     "rejectFriendRequest", "restoreChats", "loadUserData", "refreshChats"}

\* C30: in one tab and while no write has failed, after every controller
\* operation that was not refused and leaves a user signed in, the stored record
\* of the active key is the working set in memory (username, chats, friends,
\* friendRequests, sentFriendRequests), and the periodic save and the save at
\* unload leave localStorage as it was.
C30_WriteThrough ==
    [][(failures' = 0 /\ Cardinality({ t \in Tabs : tab[t].open }) <= 1) =>
          /\ ((/\ last.op \in ControllerOps
               /\ last.ret \notin Refusals
               /\ Saves(tab[last.t])) => StoredIsWorkingSet(tab[last.t]))'
          /\ last'.op \in {"autoSave", "unload"} => store' = store
    ]_vars

\* without a failure, a message was sent and stored, and then the tab was
\* closed, its save at unload done
C30_Witness_UnloadAfterSend ==
    /\ last.op = "unload" /\ last.ret = "ok"
    /\ failures = 0
    /\ pointer \in Keys
    /\ store[pointer].kind = "json"
    /\ \E i \in DOMAIN ListOf(store[pointer], "chats") :
          ListOf(store[pointer], "chats")[i].messages # <<>>

====
